---- MODULE Spec2Model ----
(***************************************************************************)
(* async-level: the LevelAsyncIterator cursor of index.js driven by any    *)
(* interleaving of next(), batchNext() and close() calls with the          *)
(* callbacks of the storage engine cursor it wraps.                        *)
(*                                                                         *)
(* One JavaScript turn (the synchronous part of a call, or one engine      *)
(* callback with everything it runs) is one action.  The engine cursor is  *)
(* the environment: it answers an outstanding advance or release at any     *)
(* later turn, with a record, end-of-range or an error.                    *)
(*                                                                         *)
(* PullSpec drives the same cursor by a consumer that awaits every result, *)
(* and HandleSpec is the AsyncLevelDown handle under any interleaving of    *)
(* ensure(), open() and close() calls with the callbacks of mkdir and of    *)
(* the engine's open and close.  FacadeSpec is the handle's put(), get(),   *)
(* del() and batch() under any interleaving with the engine's callbacks,    *)
(* for every accepted options object, and IteratorSpec is iterator() with   *)
(* bound options followed by a consumer of the cursor it returns.           *)
(* LegacySpec gives the cursor of level-async-iterator.js, wrapped around  *)
(* DecodeIterator, the same awaited calls and the same engine answers as   *)
(* the cursor of index.js.                                                  *)
(***************************************************************************)
EXTENDS Integers, Sequences, FiniteSets, TLC

\* ------------------------------------------------------------------ bounds

\* Encoded keys are 1..MaxKey.
MaxKey == 4
\* Calls made on one cursor.
MaxCalls == 3
\* Records the engine reads into its cache in one fetch after the first.
HighWaterMark == 3
\* Stored values that are damaged (no encoding of a value).
MaxDamaged == 1
\* ensure(), open() and close() calls made on one database handle.
MaxHandleCalls == 4
\* Operations submitted to one database handle by put(), get(), del() and
\* batch(), where a batch() counts for each of its operations.
MaxOperations == 3
\* The keys users write are 0..MaxUserKey, the values 0..MaxValue.
MaxUserKey == 1
MaxValue == 1
\* The operations of one batch() call.
MaxBatch == 2

Keys == 1..MaxKey

\* ------------------------------------------------------- values and hooks

\* The value the fixture stores under key k (distinct per key, never a key).
StoredValue(k) == 10 * k

\* options.encode: the raw form of a value (even numbers).
encode(v) == 2 * v

\* options.decode throws on a raw value that is no encoding (odd numbers).
decodeThrows(raw) == raw % 2 = 1

\* options.decode on a raw value it accepts.
decode(raw) == raw \div 2

\* The raw values key k may hold: the encoding of its value, or a damaged one.
RawValues(k) == {encode(StoredValue(k)), encode(StoredValue(k)) + 1}

\* Every store: a function from the stored keys to their raw values.
Stores ==
  UNION {{f \in [S -> UNION {RawValues(k) : k \in S}] :
            /\ \A k \in S : f[k] \in RawValues(k)
            /\ Cardinality({k \in S : decodeThrows(f[k])}) <= MaxDamaged} :
         S \in SUBSET Keys}

\* The ranges a cursor is opened on: the whole key space, and one that cuts
\* off its first and its last key.
Ranges == {<<1, MaxKey>>, <<2, MaxKey - 1>>}

\* ------------------------------------------------------------------ errors

NoErr == "none"
AdvanceError == "AdvanceError"
ReleaseError == "ReleaseError"
EncodingError == "EncodingError"
OpenError == "OpenError"
CloseError == "CloseError"
MkdirError == "MkdirError"
TypeError == "TypeError"

\* ----------------------------------------------------------------- results

\* new IteratorResult(true, null)
DoneResult ==
  [done |-> TRUE, err |-> NoErr, kind |-> "null", keys |-> <<>>, values |-> <<>>]

\* new IteratorResult(false, new Result(err, null))
ErrResult(err) ==
  [done |-> FALSE, err |-> err, kind |-> "null", keys |-> <<>>, values |-> <<>>]

\* A KVPair built with its arguments in the wrong order.
KVResultSwapped(key, decoded) ==
  [done |-> FALSE, err |-> NoErr, kind |-> "kv",
   keys |-> <<decoded>>, values |-> <<key>>]

\* new IteratorResult(false, new Result(null, new KVPair(key, decoded)))
KVResult(key, decoded) ==
  [done |-> FALSE, err |-> NoErr, kind |-> "kv",
   keys |-> <<key>>, values |-> <<decoded>>]

\* new IteratorResult(false, new Result(null, new MultiKVPair(keys, decodedValues)))
MultiResult(keys, decodedValues) ==
  [done |-> FALSE, err |-> NoErr, kind |-> "multi",
   keys |-> keys, values |-> decodedValues]

\* What a call that has not resolved holds.
NoResult ==
  [done |-> FALSE, err |-> NoErr, kind |-> "none", keys |-> <<>>, values |-> <<>>]

VARIABLES
  db,          \* the store: stored key -> raw value
  gte, lte,    \* the range of the cursor (encoded keys, inclusive)
  hasCache,    \* the engine cursor exposes a cache array
  cache,       \* the engine's read-ahead cache: <<v_n, k_n, ..., v_1, k_1>>
  itPos,       \* the engine's scan position: the next key to read
  itFinished,  \* the engine has read past the end of the range
  itLanded,    \* the engine has made its first read
  itEnded,     \* how many times end() was invoked on the engine cursor
  finished,    \* LevelAsyncIterator.finished
  pendingNext, \* LevelAsyncIterator.pendingNext
  landed,      \* LevelAsyncIterator._landed
  advance,     \* the outstanding engine advance and the call whose callback it holds
  release,     \* the outstanding engine release, its caller and the err of _finish
  calls        \* every call made on the cursor, in order, with its outcome

VARIABLES
  isOpen,        \* AsyncLevelDown._isOpen
  pendingEnsure, \* AsyncLevelDown._pendingEnsure: a promise of _ensure(), 0 for null
  leveldown,     \* AsyncLevelDown.leveldown: "db", or "null" once an open failed
  location,      \* leveldown.location is a path, so _ensure() makes the directory
  dbOpen,        \* the engine's database is open
  promises,      \* the promises _ensure() returned, in order
  ensureOpens,   \* how many times _ensure() invoked the engine's open
  handleCalls    \* every ensure(), open(), close() made on the handle, in order

VARIABLES
  options,       \* the options AsyncLevelDown was constructed with
  hooks,         \* AsyncLevelDown.encode, .decode and .keyEncode
  requests,      \* every put(), get(), del() and batch() made, in order
  itr,           \* the iterator() call made: its options and the engine's copy
  legacy         \* the cursor of level-async-iterator.js given the same calls

config == <<db, gte, lte, hasCache>>
engine == <<cache, itPos, itFinished, itLanded>>
cursor == <<db, gte, lte, hasCache, cache, itPos, itFinished, itLanded, itEnded,
            finished, pendingNext, landed, advance, release, calls>>
handle == <<isOpen, pendingEnsure, leveldown, location, dbOpen, promises,
            ensureOpens, handleCalls>>
facade == <<options, hooks, requests, itr, legacy>>
vars == <<db, gte, lte, hasCache, cache, itPos, itFinished, itLanded, itEnded,
          finished, pendingNext, landed, advance, release, calls,
          isOpen, pendingEnsure, leveldown, location, dbOpen, promises,
          ensureOpens, handleCalls, options, hooks, requests, itr, legacy>>

\* ------------------------------------------- AsyncLevelDown's encoding hooks

\* new LevelAsyncIterator(decodeItr) of level-async-iterator.js: advancing is
\* the call whose advance is outstanding, releasing the outstanding end().
LegacyCursor ==
  [finished |-> FALSE, pendingNext |-> FALSE, advancing |-> 0,
   releasing |-> [call |-> 0, err |-> "none"], calls |-> <<>>]

\* No iterator() call was made: options and copyOpts are objects without keys.
NoIterator ==
  [made |-> FALSE, threw |-> FALSE, options |-> [k \in {} |-> 0],
   copyOpts |-> [k \in {} |-> 0]]

\* An option that was not given.
undefined == "undefined"

\* The options objects a handle is constructed with: any hooks, or one of
\* the encodings of level.
Options ==
  [encode : {undefined, "JSON.stringify"},
   decode : {undefined, "JSON.parse"},
   keyEncode : {undefined, "charwise.encode"},
   valueEncoding : {undefined},
   keyEncoding : {undefined}]
    \cup [encode : {undefined}, decode : {undefined}, keyEncode : {undefined},
          valueEncoding : {"json", "JSON", "binary"}, keyEncoding : {undefined}]
    \cup [encode : {undefined}, decode : {undefined}, keyEncode : {undefined},
          valueEncoding : {undefined}, keyEncoding : {"utf8"}]

\* new AsyncLevelDown(db, options): whether it throws, and the hooks it
\* installs.  valueEncoding other than 'json' throws; the JSON hooks are
\* installed when valueEncoding === 'JSON'.
AsyncLevelDown(o) ==
  [threw |-> o.keyEncoding # undefined
             \/ (o.valueEncoding # undefined /\ o.valueEncoding # "json"),
   encode |-> IF o.valueEncoding = "JSON" THEN "JSON.stringify"
              ELSE IF o.encode # undefined THEN o.encode ELSE "identity",
   decode |-> IF o.valueEncoding = "JSON" THEN "JSON.parse"
              ELSE IF o.decode # undefined THEN o.decode ELSE "identity",
   keyEncode |-> IF o.keyEncode # undefined THEN o.keyEncode ELSE "identity"]

\* The handle the tests iterate with: JSON values, keys as they are.
JsonOptions ==
  [encode |-> "JSON.stringify", decode |-> "JSON.parse", keyEncode |-> undefined,
   valueEncoding |-> undefined, keyEncoding |-> undefined]

\* The handle the tests open and close: no option given.
NoOptions ==
  [encode |-> undefined, decode |-> undefined, keyEncode |-> undefined,
   valueEncoding |-> undefined, keyEncoding |-> undefined]

NoAdvance == [call |-> 0, keys |-> <<>>, values |-> <<>>]
NoRelease == [call |-> 0, err |-> NoErr]

Advancing == {"next", "batchNext"}

\* A call as it starts: fin and busy are finished and pendingNext at that
\* moment, overlap says an earlier accepted next()/batchNext() is unresolved,
\* alone says no earlier call of any kind is unresolved.  While it runs:
\* adv and end count its invocations of the engine's advance and release,
\* resp is the engine's last answer to it ("record", "end", "error"), finCb
\* is finished at the moment of that answer, raw is the raw value of the
\* record it was last handed, got counts the records it accumulated, rel is
\* the fate of the release it invoked ("pending", "ok", "failed"), ans counts
\* the engine's answers to its advances, vals is the raw values batchNext()'s
\* callback was given, lnd is _landed as the call starts, key is the key of
\* the record it was last handed.
NewCall(op) ==
  [op |-> op, st |-> "pending", res |-> NoResult,
   fin |-> finished, busy |-> pendingNext,
   overlap |-> \E i \in 1..Len(calls) :
                 calls[i].op \in Advancing /\ calls[i].st \in {"pending", "hung"},
   alone |-> \A i \in 1..Len(calls) : calls[i].st \in {"resolved", "thrown"},
   adv |-> 0, end |-> 0, got |-> 0, resp |-> "none", finCb |-> FALSE,
   raw |-> 0, rel |-> "none", ans |-> 0, vals |-> <<>>, lnd |-> landed,
   key |-> 0]

\* resolve(r) of call c.
Resolved(cs, c, r) == [cs EXCEPT ![c].st = "resolved", ![c].res = r]

\* The engine's answer to call c, noted on the call.
Answered(cs, c, o, got) ==
  [cs EXCEPT ![c].resp = IF o.err # NoErr THEN "error"
                         ELSE IF o.end THEN "end" ELSE "record",
             ![c].finCb = finished, ![c].raw = o.value, ![c].key = o.key,
             ![c].got = got,
             ![c].ans = @ + 1]

\* ------------------------------------------------- the storage engine cursor

\* The engine's read: the first stored key at or after p within the range,
\* 0 when there is none.
ReadKey(p) ==
  LET S == {k \in DOMAIN db : p <= k /\ gte <= k /\ k <= lte}
  IN IF S = {} THEN 0 ELSE CHOOSE k \in S : \A j \in S : k <= j

\* One fetch of the engine: it reads records until n are read (not finished)
\* or a read fails (finished).
RECURSIVE IteratorNext(_, _)
IteratorNext(p, n) ==
  LET k == ReadKey(p)
  IN IF k = 0 THEN [recs |-> <<>>, pos |-> p, fin |-> TRUE]
     ELSE IF n <= 1 THEN [recs |-> <<k>>, pos |-> k + 1, fin |-> FALSE]
     ELSE LET r == IteratorNext(k + 1, n - 1)
          IN [recs |-> <<k>> \o r.recs, pos |-> r.pos, fin |-> r.fin]

\* The cache array of a fetch: trailing value then key, the first record read
\* last, so that pop() yields its key and then its value.
RECURSIVE ToCache(_)
ToCache(recs) ==
  IF recs = <<>> THEN <<>>
  ELSE ToCache(Tail(recs)) \o <<db[Head(recs)], Head(recs)>>

\* The engine's next(callback) without an error: it pops the cache, or reports
\* end-of-range when finished, or fetches and then pops.  The first fetch of a
\* cursor reads one record whatever the high-water mark; an engine without a
\* cache array reads one record every time.
EngineNextFrom(e) ==
  LET fetched == e.cache = <<>> /\ ~e.fin
      f == IteratorNext(e.pos, IF e.landed /\ hasCache THEN HighWaterMark ELSE 1)
      c == IF fetched THEN ToCache(f.recs) ELSE e.cache
      base == [err |-> NoErr,
               pos |-> IF fetched THEN f.pos ELSE e.pos,
               fin |-> IF fetched THEN f.fin ELSE e.fin,
               landed |-> e.landed \/ (fetched /\ f.recs # <<>>)]
  IN IF c = <<>>
     THEN [end |-> TRUE, key |-> 0, value |-> 0, cache |-> <<>>] @@ base
     ELSE [end |-> FALSE, key |-> c[Len(c)], value |-> c[Len(c) - 1],
           cache |-> SubSeq(c, 1, Len(c) - 2)] @@ base

\* The engine cursor as it is now, and its answer to an advance.
EngineNow == [cache |-> cache, pos |-> itPos, fin |-> itFinished, landed |-> itLanded]
EngineNext == EngineNextFrom(EngineNow)

\* The engine's next(callback) reporting an error: callback(err).
EngineError ==
  [err |-> AdvanceError, end |-> FALSE, key |-> 0, value |-> 0, cache |-> cache,
   pos |-> itPos, fin |-> itFinished, landed |-> itLanded]

\* What the engine may call an advance callback with.
AdvanceOutcomes == {EngineNext, EngineError}

\* What the engine may call a release callback with.
ReleaseOutcomes == {NoErr, ReleaseError}

\* ------------------------------------------------------ LevelAsyncIterator

\* An onFinish that looks at err alone.
onFinishDropsFinishErr(err, finishErr) ==
  IF err # NoErr THEN ErrResult(err) ELSE DoneResult

\* An onFinish that reports finishErr || err.
onFinishReleaseFirst(err, finishErr) ==
  IF err # NoErr \/ finishErr # NoErr
  THEN ErrResult(IF finishErr # NoErr THEN finishErr ELSE err)
  ELSE DoneResult

\* onFinish(finishErr) inside _finish(nextResolve, err): the IteratorResult it
\* hands to nextResolve.
onFinish(err, finishErr) ==
  IF err # NoErr \/ finishErr # NoErr
  THEN ErrResult(IF err # NoErr THEN err ELSE finishErr)
  ELSE DoneResult

\* A close() that resolves {err: null} whatever _finish reports.
nextResolveDropsErr(op, result) ==
  IF op = "close"
  THEN [done |-> FALSE, err |-> NoErr, kind |-> "result",
        keys |-> <<>>, values |-> <<>>]
  ELSE result

\* The nextResolve given to _finish: resolve itself for next() and batchNext(),
\* and for close() the wrapper that resolves new Result(v && v.err ? v.err : null, null).
nextResolve(op, result) ==
  IF op = "close"
  THEN [done |-> FALSE, err |-> result.err, kind |-> "result",
        keys |-> <<>>, values |-> <<>>]
  ELSE result

\* A _finish that does not look at finished: it invokes end() every time.
_finishAgain(cs, c, err) ==
  /\ finished' = TRUE
  /\ itEnded' = itEnded + 1
  /\ release' = [call |-> c, err |-> err]
  /\ calls' = [cs EXCEPT ![c].end = @ + 1, ![c].rel = "pending"]

\* A _finish that re-arms a finished cursor: it clears the flag on its early
\* return.
_finishRearms(cs, c, err) ==
  IF finished
  THEN /\ finished' = FALSE
       /\ calls' = Resolved(cs, c, nextResolve(cs[c].op, onFinish(err, NoErr)))
       /\ UNCHANGED <<itEnded, release>>
  ELSE /\ finished' = TRUE
       /\ itEnded' = itEnded + 1
       /\ release' = [call |-> c, err |-> err]
       /\ calls' = [cs EXCEPT ![c].end = @ + 1, ![c].rel = "pending"]

\* A _finish that invokes end() and leaves finished as it was.
_finishStaysActive(cs, c, err) ==
  /\ finished' = finished
  /\ itEnded' = itEnded + 1
  /\ release' = [call |-> c, err |-> err]
  /\ calls' = [cs EXCEPT ![c].end = @ + 1, ![c].rel = "pending"]

\* _finish(nextResolve, err) on behalf of call c, cs being the calls so far.
_finish(cs, c, err) ==
  IF finished
  THEN /\ calls' = Resolved(cs, c, nextResolve(cs[c].op, onFinish(err, NoErr)))
       /\ UNCHANGED <<finished, itEnded, release>>
  ELSE /\ finished' = TRUE
       /\ itEnded' = itEnded + 1
       /\ release' = [call |-> c, err |-> err]
       /\ calls' = [cs EXCEPT ![c].end = @ + 1, ![c].rel = "pending"]

\* A guard that lets every call in.
concurrentAccessNever == FALSE

\* The guard of next() and batchNext(): throw when a call is in flight.
concurrentAccess == pendingNext

\* A cursor that never takes the finished branch.
alreadyFinishedNever == FALSE

\* The check of next() and batchNext() inside the promise: already finished.
alreadyFinished == finished

\* A throw that clears the guard on its way out.
throwNotSafeResets(cs, c) ==
  /\ calls' = [cs EXCEPT ![c].st = "thrown"]
  /\ pendingNext' = FALSE
  /\ UNCHANGED advance

\* throw new Error('It is not safe to call Iterator.next() concurrently')
throwNotSafe(cs, c) ==
  /\ calls' = [cs EXCEPT ![c].st = "thrown"]
  /\ UNCHANGED <<pendingNext, advance>>

\* The synchronous part of next() and of batchNext(): the guard, the finished
\* check, and the first advance of the engine cursor.
startAdvancing(op) ==
  /\ LET c == Len(calls) + 1
         cs == Append(calls, NewCall(op))
     IN IF concurrentAccess
        THEN throwNotSafe(cs, c)
        ELSE IF alreadyFinished
        THEN /\ pendingNext' = FALSE
             /\ calls' = Resolved(cs, c, DoneResult)
             /\ UNCHANGED advance
        ELSE /\ pendingNext' = TRUE
             /\ advance' = [call |-> c, keys |-> <<>>, values |-> <<>>]
             /\ calls' = [cs EXCEPT ![c].adv = @ + 1]
  /\ UNCHANGED <<config, engine, itEnded, finished, landed, release, handle, facade>>

\* next()
next ==
  /\ Len(calls) < MaxCalls
  /\ startAdvancing("next")

\* batchNext(), up to the first this._iterator.next(onNext) of _batchNext
batchNext ==
  /\ Len(calls) < MaxCalls
  /\ startAdvancing("batchNext")

\* A catch that swallows what decode threw.
tryDecodeSwallows(value) ==
  [threw |-> FALSE, decoded |-> IF decodeThrows(value) THEN 0 ELSE decode(value)]

\* The try/catch of next() around this.decode(value): what it decoded, or that
\* decode threw.
tryDecode(value) ==
  IF decodeThrows(value) THEN [threw |-> TRUE, decoded |-> 0]
  ELSE [threw |-> FALSE, decoded |-> decode(value)]

\* The callback next() gives to this._iterator.next.
nextCallback ==
  /\ advance.call # 0
  /\ calls[advance.call].op = "next"
  /\ \E o \in AdvanceOutcomes :
       LET c == advance.call
           cs == Answered(calls, c, o, IF o.err = NoErr /\ ~o.end THEN 1 ELSE 0)
       IN /\ cache' = o.cache
          /\ itPos' = o.pos
          /\ itFinished' = o.fin
          /\ itLanded' = o.landed
          /\ advance' = NoAdvance
          /\ pendingNext' = FALSE
          /\ IF o.err # NoErr THEN _finish(cs, c, o.err)
             ELSE IF o.end THEN _finish(cs, c, NoErr)
             ELSE IF tryDecode(o.value).threw THEN _finish(cs, c, EncodingError)
             ELSE /\ calls' = Resolved(cs, c, KVResult(o.key, tryDecode(o.value).decoded))
                  /\ UNCHANGED <<finished, itEnded, release>>
  /\ UNCHANGED <<config, landed, handle, facade>>

\* A drain loop that walks the cache from its first pair up.
RECURSIVE drainCacheUp(_, _, _, _)
drainCacheUp(c, i, keys, values) ==
  IF i < 1 THEN [keys |-> keys, values |-> values]
  ELSE drainCacheUp(c, i - 2, Append(keys, c[Len(c) - i + 2]),
                    Append(values, c[Len(c) - i + 1]))

\* A drain loop that takes cache[i - 1] for the key and cache[i] for the value.
RECURSIVE drainCacheSwapped(_, _, _, _)
drainCacheSwapped(c, i, keys, values) ==
  IF i < 1 THEN [keys |-> keys, values |-> values]
  ELSE drainCacheSwapped(c, i - 2, Append(keys, c[i - 1]), Append(values, c[i]))

\* The loop of onNext over the cache, from its last index i down in steps of
\* two: keys.push(cache[i]); values.push(cache[i - 1]).
RECURSIVE drainCache(_, _, _, _)
drainCache(c, i, keys, values) ==
  IF i < 1 THEN [keys |-> keys, values |-> values]
  ELSE drainCache(c, i - 2, Append(keys, c[i]), Append(values, c[i - 1]))

\* A decode loop that tries the first value of the batch alone.
decodeFailsFirst(values) == values # <<>> /\ decodeThrows(values[1])

\* The decode loop of batchNext(): one of the values makes decode throw.
decodeFails(values) == \E i \in 1..Len(values) : decodeThrows(values[i])

\* The decode loop of batchNext(): decodedValues.
decodeAll(values) == [i \in 1..Len(values) |-> decode(values[i])]

\* A callback of batchNext() that leaves the guard set.
batchNextCallbackKeepsGuard(cs, c, err, undef, keys, values) ==
  /\ pendingNext' = pendingNext
  /\ advance' = NoAdvance
  /\ LET given == [cs EXCEPT ![c].vals = values]
     IN IF err # NoErr THEN _finish(given, c, err)
        ELSE IF undef THEN _finish(given, c, NoErr)
        ELSE IF decodeFails(values) THEN _finish(given, c, EncodingError)
        ELSE /\ calls' = Resolved(given, c, MultiResult(keys, decodeAll(values)))
             /\ UNCHANGED <<finished, itEnded, release>>

\* The callback batchNext() gives to _batchNext, called for call c with
\* (err, keys, values); undef says keys and values are undefined.
batchNextCallback(cs, c, err, undef, keys, values) ==
  /\ pendingNext' = FALSE
  /\ advance' = NoAdvance
  /\ LET given == [cs EXCEPT ![c].vals = values]
     IN IF err # NoErr THEN _finish(given, c, err)
        ELSE IF undef THEN _finish(given, c, NoErr)
        ELSE IF decodeFails(values) THEN _finish(given, c, EncodingError)
        ELSE /\ calls' = Resolved(given, c, MultiResult(keys, decodeAll(values)))
             /\ UNCHANGED <<finished, itEnded, release>>

\* An exception that clears the guard before it leaves the callback.
throwsInCallbackResets(cs, c) ==
  /\ calls' = [cs EXCEPT ![c].st = "hung"]
  /\ advance' = NoAdvance
  /\ pendingNext' = FALSE
  /\ UNCHANGED <<finished, itEnded, release>>

\* An exception raised inside the engine's callback: nothing resolves call c.
throwsInCallback(cs, c) ==
  /\ calls' = [cs EXCEPT ![c].st = "hung"]
  /\ advance' = NoAdvance
  /\ UNCHANGED <<pendingNext, finished, itEnded, release>>

\* An onNext that takes the first record for a landed cursor.
secondAdvanceNever(cacheLength) == FALSE

\* An onNext that looks at the cache alone, landed or not.
secondAdvanceLanded(cacheLength) == cacheLength = 0

\* The test of onNext on its first record: the cursor had not landed and the
\* engine's cache is empty, so it advances once more before it drains.
secondAdvance(cacheLength) == ~landed /\ cacheLength = 0

\* An onNext that reports end-of-range as cb() whatever it holds.
accumulatedNever(keys, values) == FALSE

\* The test of onNext at end-of-range: keys.length > 0 || values.length > 0
accumulated(keys, values) == Len(keys) > 0 \/ Len(values) > 0

\* An onNext that leaves the drained pairs in the engine's cache.
truncateNever(c) == c

\* cache.length = 0
truncate(c) == <<>>

\* onNext of _batchNext, with everything it calls.
onNext ==
  /\ advance.call # 0
  /\ calls[advance.call].op = "batchNext"
  /\ \E o \in AdvanceOutcomes :
       LET c == advance.call
           keys == advance.keys
           values == advance.values
           keys1 == Append(keys, o.key)
           values1 == Append(values, o.value)
           again == secondAdvance(Len(o.cache))
           d == drainCache(o.cache, Len(o.cache), keys1, values1)
           cs == Answered(calls, c, o,
                          IF o.err # NoErr \/ o.end THEN Len(keys)
                          ELSE IF hasCache /\ ~again THEN Len(d.keys)
                          ELSE Len(keys1))
       IN /\ itPos' = o.pos
          /\ itFinished' = o.fin
          /\ itLanded' = o.landed
          /\ IF o.err # NoErr
             THEN /\ batchNextCallback(cs, c, o.err, TRUE, <<>>, <<>>)
                  /\ cache' = o.cache
                  /\ UNCHANGED landed
             ELSE IF o.end
             THEN /\ IF accumulated(keys, values)
                     THEN batchNextCallback(cs, c, NoErr, FALSE, keys, values)
                     ELSE batchNextCallback(cs, c, NoErr, TRUE, <<>>, <<>>)
                  /\ cache' = o.cache
                  /\ UNCHANGED landed
             ELSE IF ~hasCache
             THEN /\ throwsInCallback(cs, c)
                  /\ cache' = o.cache
                  /\ UNCHANGED landed
             ELSE IF again
             THEN /\ landed' = TRUE
                  /\ cache' = o.cache
                  /\ \/ /\ advance' = [call |-> c, keys |-> keys1, values |-> values1]
                        /\ calls' = [cs EXCEPT ![c].adv = @ + 1]
                        /\ UNCHANGED <<pendingNext, finished, itEnded, release>>
                     \/ /\ itEnded > 0
                        /\ throwsInCallback([cs EXCEPT ![c].adv = @ + 1], c)
             ELSE /\ landed' = TRUE
                  /\ cache' = truncate(o.cache)
                  /\ batchNextCallback(cs, c, NoErr, FALSE, d.keys, d.values)
  /\ UNCHANGED <<config, handle, facade>>

\* close()
close ==
  /\ Len(calls) < MaxCalls
  /\ _finish(Append(calls, NewCall("close")), Len(calls) + 1, NoErr)
  /\ UNCHANGED <<config, engine, pendingNext, landed, advance, handle, facade>>

\* The engine calls the callback of end(): onFinish(finishErr) of the _finish
\* that invoked it.
endCallback ==
  /\ release.call # 0
  /\ \E finishErr \in ReleaseOutcomes :
       LET c == release.call
           cs == [calls EXCEPT ![c].rel = IF finishErr = NoErr THEN "ok" ELSE "failed"]
       IN calls' = Resolved(cs, c, nextResolve(calls[c].op, onFinish(release.err, finishErr)))
  /\ release' = NoRelease
  /\ UNCHANGED <<config, engine, itEnded, finished, pendingNext, landed, advance,
                 handle, facade>>

\* ----------------------------------------------------------- specification

\* new AsyncLevelDown(db, options): the fields ensure() works with.
constructor ==
  /\ isOpen = FALSE
  /\ pendingEnsure = 0
  /\ leveldown = "db"
  /\ promises = <<>>
  /\ ensureOpens = 0
  /\ handleCalls = <<>>

\* A new LevelAsyncIterator over a fresh engine cursor on any store and range,
\* of a handle opened with open().
Init ==
  /\ constructor
  /\ location = TRUE
  /\ dbOpen = TRUE
  /\ options = JsonOptions
  /\ hooks = AsyncLevelDown(options)
  /\ requests = <<>>
  /\ itr = NoIterator
  /\ legacy = LegacyCursor
  /\ db \in Stores
  /\ \E r \in Ranges : gte = r[1] /\ lte = r[2]
  /\ hasCache \in BOOLEAN
  /\ cache = <<>>
  /\ itPos = gte
  /\ itFinished = FALSE
  /\ itLanded = FALSE
  /\ itEnded = 0
  /\ finished = FALSE
  /\ pendingNext = FALSE
  /\ landed = FALSE
  /\ advance = NoAdvance
  /\ release = NoRelease
  /\ calls = <<>>

Next ==
  \/ next
  \/ batchNext
  \/ close
  \/ nextCallback
  \/ onNext
  \/ endCallback

Spec == Init /\ [][Next]_vars

\* ------------------------------------------------- the sequential consumer

\* The pulls a consumer can make before a range of MaxKey records must have
\* ended: every record, one error, done:true, and one pull to spare.
MaxPulls == MaxKey + 3

\* drainIterator and for-await: the consumer awaits every result before it
\* pulls again, and stops at the first done:true.
awaited ==
  /\ Len(calls) < MaxPulls
  /\ \A c \in 1..Len(calls) : calls[c].st = "resolved" /\ ~calls[c].res.done

\* itr.next() of the consumer's loop
pullNext ==
  /\ awaited
  /\ startAdvancing("next")

\* itr.batchNext() of the consumer's loop, on an engine with a cache array
pullBatchNext ==
  /\ awaited
  /\ hasCache
  /\ startAdvancing("batchNext")

PullNext ==
  \/ pullNext
  \/ pullBatchNext
  \/ nextCallback
  \/ onNext
  \/ endCallback

PullSpec == Init /\ [][PullNext]_vars

\* ------------------------------------------------- AsyncLevelDown.ensure()

\* A call on the handle as it starts: role says how an ensure() went on
\* ("fast" on _isOpen, "shared" on _pendingEnsure, "started" its own
\* _ensure()), p is the promise of _ensure() it waits on.  When it settles:
\* st is "resolved" or "thrown", err the error thrown or the err of the value
\* resolved, openAt whether the engine's database was open at that moment.
HandleCall(op, role, p) ==
  [op |-> op, role |-> role, p |-> p, st |-> "pending", err |-> NoErr,
   openAt |-> FALSE]

\* The call settles: it resolves with (a value holding) err, or throws err.
Settled(call, st, err) ==
  [call EXCEPT !.st = st, !.err = err, !.openAt = dbOpen]

\* _ensure() up to its first await: reading location of a null leveldown
\* throws, a path is made with mkdir first, otherwise open() is invoked.
_ensure ==
  IF leveldown = "null" THEN [st |-> "rejected", err |-> TypeError]
  ELSE IF location THEN [st |-> "mkdir", err |-> NoErr]
  ELSE [st |-> "open", err |-> NoErr]

\* An ensure() that never shares an attempt in flight.
coalescedNever == FALSE

\* if (this._pendingEnsure) return this._pendingEnsure
coalesced == pendingEnsure # 0

\* ensure() up to its await
ensure ==
  /\ Len(handleCalls) < MaxHandleCalls
  /\ IF isOpen
     THEN /\ handleCalls' =
               Append(handleCalls, Settled(HandleCall("ensure", "fast", 0), "resolved", NoErr))
          /\ UNCHANGED <<pendingEnsure, promises, ensureOpens>>
     ELSE IF coalesced
     THEN /\ handleCalls' =
               Append(handleCalls, HandleCall("ensure", "shared", pendingEnsure))
          /\ UNCHANGED <<pendingEnsure, promises, ensureOpens>>
     ELSE /\ promises' = Append(promises, _ensure)
          /\ pendingEnsure' = Len(promises) + 1
          /\ ensureOpens' = IF _ensure.st = "open" THEN ensureOpens + 1 ELSE ensureOpens
          /\ handleCalls' =
               Append(handleCalls, HandleCall("ensure", "started", Len(promises) + 1))
  /\ UNCHANGED <<isOpen, leveldown, location, dbOpen, cursor, facade>>

\* mkdir answers _ensure(): it rejects, or _ensure() goes on to this.open().
mkdirCallback ==
  /\ \E p \in 1..Len(promises) :
       /\ promises[p].st = "mkdir"
       /\ \/ /\ promises' = [promises EXCEPT ![p] = [st |-> "rejected", err |-> MkdirError]]
             /\ UNCHANGED ensureOpens
          \/ /\ promises' = [promises EXCEPT ![p].st = "open"]
             /\ ensureOpens' = ensureOpens + 1
  /\ UNCHANGED <<isOpen, pendingEnsure, leveldown, location, dbOpen, handleCalls, cursor, facade>>

\* The engine calls the callback of the open() that _ensure() made.
openCallback ==
  /\ \E p \in 1..Len(promises) :
       /\ promises[p].st = "open"
       /\ \E err \in {NoErr, OpenError} :
            /\ promises' = [promises EXCEPT ![p] = [st |-> "opened", err |-> err]]
            /\ dbOpen' = IF err = NoErr THEN TRUE ELSE dbOpen
  /\ UNCHANGED <<isOpen, pendingEnsure, leveldown, location, ensureOpens, handleCalls,
                 cursor, facade>>

\* _ensure() after await this.open(): on err it drops leveldown and returns
\* { err }, otherwise it sets _isOpen and returns {}.
_ensureOpened ==
  /\ \E p \in 1..Len(promises) :
       /\ promises[p].st = "opened"
       /\ promises' = [promises EXCEPT ![p].st = "resolved"]
       /\ IF promises[p].err # NoErr
          THEN leveldown' = "null" /\ UNCHANGED isOpen
          ELSE isOpen' = TRUE /\ UNCHANGED leveldown
  /\ UNCHANGED <<pendingEnsure, location, dbOpen, ensureOpens, handleCalls, cursor, facade>>

\* ensure() after await this._pendingEnsure, in the caller that started the
\* attempt: a rejection is thrown on; otherwise it clears _pendingEnsure and
\* throws err if there is one.
ensureResumed ==
  /\ \E c \in 1..Len(handleCalls) :
       /\ handleCalls[c].st = "pending"
       /\ handleCalls[c].role = "started"
       /\ LET promise == promises[handleCalls[c].p]
          IN /\ promise.st \in {"resolved", "rejected"}
             /\ IF promise.st = "rejected"
                THEN /\ handleCalls' =
                          [handleCalls EXCEPT ![c] = Settled(@, "thrown", promise.err)]
                     /\ UNCHANGED pendingEnsure
                ELSE /\ pendingEnsure' = 0
                     /\ handleCalls' =
                          [handleCalls EXCEPT ![c] =
                             Settled(@, IF promise.err # NoErr THEN "thrown" ELSE "resolved",
                                     promise.err)]
  /\ UNCHANGED <<isOpen, leveldown, location, dbOpen, promises, ensureOpens, cursor, facade>>

\* The promise a caller was handed by return this._pendingEnsure settles: the
\* caller's ensure() resolves with the value of _ensure(), or rejects with it.
ensureShared ==
  /\ \E c \in 1..Len(handleCalls) :
       /\ handleCalls[c].st = "pending"
       /\ handleCalls[c].role = "shared"
       /\ LET promise == promises[handleCalls[c].p]
          IN /\ promise.st \in {"resolved", "rejected"}
             /\ handleCalls' =
                  [handleCalls EXCEPT ![c] =
                     Settled(@, IF promise.st = "rejected" THEN "thrown" ELSE "resolved",
                             promise.err)]
  /\ UNCHANGED <<isOpen, pendingEnsure, leveldown, location, dbOpen, promises,
                 ensureOpens, cursor, facade>>

\* open() and close() of the handle, called by the user: this.leveldown.open
\* or .close is invoked, which throws inside the promise when leveldown is null.
direct(op) ==
  handleCalls' =
    Append(handleCalls,
           IF leveldown = "null"
           THEN Settled(HandleCall(op, "direct", 0), "thrown", TypeError)
           ELSE HandleCall(op, "direct", 0))

\* open()
open ==
  /\ Len(handleCalls) < MaxHandleCalls
  /\ direct("open")
  /\ UNCHANGED <<isOpen, pendingEnsure, leveldown, location, dbOpen, promises,
                 ensureOpens, cursor, facade>>

\* close() of the handle
closeHandle ==
  /\ Len(handleCalls) < MaxHandleCalls
  /\ direct("close")
  /\ UNCHANGED <<isOpen, pendingEnsure, leveldown, location, dbOpen, promises,
                 ensureOpens, cursor, facade>>

\* The engine calls the callback of the user's call c with err, after which
\* the database is open or not: resolve(new Result(err, null)).
resultCallback(c, err, opened) ==
  /\ dbOpen' = opened
  /\ handleCalls' =
       [handleCalls EXCEPT ![c] = [@ EXCEPT !.st = "resolved", !.err = err,
                                            !.openAt = opened]]

\* The engine answers a user's open().
openResult ==
  /\ \E c \in 1..Len(handleCalls) :
       /\ handleCalls[c].st = "pending"
       /\ handleCalls[c].op = "open"
       /\ \/ resultCallback(c, NoErr, TRUE)
          \/ resultCallback(c, OpenError, dbOpen)
  /\ UNCHANGED <<isOpen, pendingEnsure, leveldown, location, promises, ensureOpens,
                 cursor, facade>>

\* The engine answers a user's close().
closeResult ==
  /\ \E c \in 1..Len(handleCalls) :
       /\ handleCalls[c].st = "pending"
       /\ handleCalls[c].op = "close"
       /\ \/ resultCallback(c, NoErr, FALSE)
          \/ resultCallback(c, CloseError, dbOpen)
  /\ UNCHANGED <<isOpen, pendingEnsure, leveldown, location, promises, ensureOpens,
                 cursor, facade>>

\* A new handle on a database that is not open, and no cursor in use.
HandleInit ==
  /\ constructor
  /\ options = NoOptions
  /\ hooks = AsyncLevelDown(options)
  /\ requests = <<>>
  /\ itr = NoIterator
  /\ legacy = LegacyCursor
  /\ location \in BOOLEAN
  /\ dbOpen = FALSE
  /\ db = <<>>
  /\ gte = 1
  /\ lte = MaxKey
  /\ hasCache = TRUE
  /\ cache = <<>>
  /\ itPos = gte
  /\ itFinished = FALSE
  /\ itLanded = FALSE
  /\ itEnded = 0
  /\ finished = FALSE
  /\ pendingNext = FALSE
  /\ landed = FALSE
  /\ advance = NoAdvance
  /\ release = NoRelease
  /\ calls = <<>>

HandleNext ==
  \/ ensure
  \/ open
  \/ closeHandle
  \/ mkdirCallback
  \/ openCallback
  \/ _ensureOpened
  \/ ensureResumed
  \/ ensureShared
  \/ openResult
  \/ closeResult

HandleSpec == HandleInit /\ [][HandleNext]_vars

\* ------------------------------------- AsyncLevelDown.put, get, del, batch

UserKeys == 0..MaxUserKey
Values == 0..MaxValue

\* A value JSON.stringify throws on (an object that refers to itself), a key
\* charwise.encode throws on, and the value of a del operation.
Circular == 0
BadKey == 0
Undefined == -1

\* Whether a hook throws on x, and what it returns when it does not:
\* JSON.stringify and JSON.parse are encode and decode, charwise.encode maps
\* a key to the next one, identity returns its argument.
hookThrows(hook, x) ==
  CASE hook = "JSON.stringify" -> x = Circular
    [] hook = "JSON.parse" -> decodeThrows(x)
    [] hook = "charwise.encode" -> x = BadKey
    [] OTHER -> FALSE

hookApply(hook, x) ==
  CASE hook = "JSON.stringify" -> IF x = Undefined THEN Undefined ELSE encode(x)
    [] hook = "JSON.parse" -> decode(x)
    [] hook = "charwise.encode" -> x + 1
    [] OTHER -> x

\* Errors: err is null, the engine's errors, and the errors of index.js.
\* message is the words of err.message.
null == [name |-> "null", message |-> <<>>, notFound |-> FALSE]
EngineNotFound == [name |-> "Error", message |-> <<"NotFound", ":">>, notFound |-> FALSE]
EngineIOError == [name |-> "Error", message |-> <<"IO", "error">>, notFound |-> FALSE]
NotFoundError ==
  [name |-> "NotFoundError", message |-> <<"Key", "not", "found">>, notFound |-> TRUE]
EncodingErrorIn(prefix) ==
  [name |-> "EncodingError", message |-> <<prefix>>, notFound |-> FALSE]
HookError == [name |-> "Error", message |-> <<"hook">>, notFound |-> FALSE]

\* new Result(err, data); data is <<>> for null and <<v>> for a value.
Result(err, data) == [err |-> err, data |-> data]

\* A regex that matches the lower-case word alone.
notFoundRegexCased(message) ==
  \E i \in 1..Len(message) : message[i] = "notfound"

\* notFoundRegex.test(err.message): /notfound/i
notFoundRegex(message) ==
  \E i \in 1..Len(message) : message[i] \in {"notfound", "NotFound", "NOTFOUND"}

\* A request as it starts: seen is the requests settled by then, raw the
\* operations it hands to the engine, eng how many calls it made to the engine.
Request(op, key, value, ops) ==
  [op |-> op, key |-> key, value |-> value, ops |-> ops, st |-> "pending",
   res |-> Result(null, <<>>), eng |-> 0, raw |-> <<>>, engErr |-> null,
   seen |-> {c \in 1..Len(requests) : requests[c].st # "pending"}]

\* The operations submitted so far.
RECURSIVE Submitted(_)
Submitted(n) ==
  IF n = 0 THEN 0
  ELSE Submitted(n - 1)
         + (IF requests[n].op = "batch" THEN Len(requests[n].ops) ELSE 1)

\* The request resolves r without a call to the engine.
Short(request, r) == [request EXCEPT !.st = "resolved", !.res = r]

\* The request throws (put, get, del) or its promise rejects (batch).
Raised(request, st) == [request EXCEPT !.st = st, !.res = Result(HookError, <<>>)]

\* The request calls the engine with the operations raw.
Sent(request, raw) == [request EXCEPT !.eng = 1, !.raw = raw]

BatchOp(type, key, value) == [type |-> type, key |-> key, value |-> value]

\* The cursor and the handle's open state, which no request touches.
idle == <<gte, lte, hasCache, cache, itPos, itFinished, itLanded, itEnded,
          finished, pendingNext, landed, advance, release, calls, handle,
          options, hooks, itr, legacy>>

\* A put() that hands the engine the value without encoding it.
putUnencoded(key, value) ==
  IF hookThrows(hooks.keyEncode, key)
  THEN Raised(Request("put", key, value, <<>>), "thrown")
  ELSE IF hookThrows(hooks.encode, value)
  THEN Short(Request("put", key, value, <<>>),
             Result(EncodingErrorIn("encode in put(): "), <<>>))
  ELSE Sent(Request("put", key, value, <<>>),
            <<BatchOp("put", hookApply(hooks.keyEncode, key), value)>>)

\* put(key, value, options) up to the engine's put
putRequest(key, value) ==
  IF hookThrows(hooks.keyEncode, key)
  THEN Raised(Request("put", key, value, <<>>), "thrown")
  ELSE IF hookThrows(hooks.encode, value)
  THEN Short(Request("put", key, value, <<>>),
             Result(EncodingErrorIn("encode in put(): "), <<>>))
  ELSE Sent(Request("put", key, value, <<>>),
            <<BatchOp("put", hookApply(hooks.keyEncode, key),
                      hookApply(hooks.encode, value))>>)

put ==
  /\ Submitted(Len(requests)) < MaxOperations
  /\ \E key \in UserKeys, value \in Values :
       requests' = Append(requests, putRequest(key, value))
  /\ UNCHANGED <<db, idle>>

\* get(key, options) up to the engine's get
get ==
  /\ Submitted(Len(requests)) < MaxOperations
  /\ \E key \in UserKeys :
       requests' =
         Append(requests,
                IF hookThrows(hooks.keyEncode, key)
                THEN Raised(Request("get", key, Undefined, <<>>), "thrown")
                ELSE Sent(Request("get", key, Undefined, <<>>),
                          <<BatchOp("get", hookApply(hooks.keyEncode, key), Undefined)>>))
  /\ UNCHANGED <<db, idle>>

\* del(key, options) up to the engine's del
del ==
  /\ Submitted(Len(requests)) < MaxOperations
  /\ \E key \in UserKeys :
       requests' =
         Append(requests,
                IF hookThrows(hooks.keyEncode, key)
                THEN Raised(Request("del", key, Undefined, <<>>), "thrown")
                ELSE Sent(Request("del", key, Undefined, <<>>),
                          <<BatchOp("del", hookApply(hooks.keyEncode, key), Undefined)>>))
  /\ UNCHANGED <<db, idle>>

\* The operations a batch() is called with.
BatchOps ==
  {BatchOp("put", k, v) : k \in UserKeys, v \in Values}
    \cup {BatchOp("del", k, Undefined) : k \in UserKeys}

Batches == UNION {[1..n -> BatchOps] : n \in 1..MaxBatch}

\* A loop that leaves out an operation whose value encode throws on.
RECURSIVE rawOperationsSkipping(_, _, _)
rawOperationsSkipping(operations, i, rawOperations) ==
  IF i > Len(operations) THEN [outcome |-> "encoded", raw |-> rawOperations]
  ELSE IF hookThrows(hooks.encode, operations[i].value)
  THEN rawOperationsSkipping(operations, i + 1, rawOperations)
  ELSE IF hookThrows(hooks.keyEncode, operations[i].key)
  THEN [outcome |-> "keyEncode threw", raw |-> rawOperations]
  ELSE rawOperationsSkipping(
         operations, i + 1,
         Append(rawOperations,
                BatchOp(operations[i].type,
                        hookApply(hooks.keyEncode, operations[i].key),
                        hookApply(hooks.encode, operations[i].value))))

\* The loop of batch() from operation i on: it stops where a hook throws.
RECURSIVE rawOperationsFrom(_, _, _)
rawOperationsFrom(operations, i, rawOperations) ==
  IF i > Len(operations) THEN [outcome |-> "encoded", raw |-> rawOperations]
  ELSE IF hookThrows(hooks.encode, operations[i].value)
  THEN [outcome |-> "encode threw", raw |-> rawOperations]
  ELSE IF hookThrows(hooks.keyEncode, operations[i].key)
  THEN [outcome |-> "keyEncode threw", raw |-> rawOperations]
  ELSE rawOperationsFrom(
         operations, i + 1,
         Append(rawOperations,
                BatchOp(operations[i].type,
                        hookApply(hooks.keyEncode, operations[i].key),
                        hookApply(hooks.encode, operations[i].value))))

\* batch(operations, options) up to the engine's batch
batch ==
  /\ Submitted(Len(requests)) < MaxOperations
  /\ \E operations \in Batches :
       LET encoded == rawOperationsFrom(operations, 1, <<>>)
           request == Request("batch", Undefined, Undefined, operations)
       IN /\ Submitted(Len(requests)) + Len(operations) <= MaxOperations
          /\ requests' =
               Append(requests,
                      CASE encoded.outcome = "encode threw" ->
                             Short(request,
                                   Result(EncodingErrorIn("encode in batch(): "),
                                          <<>>))
                        [] encoded.outcome = "keyEncode threw" ->
                             Raised(request, "rejected")
                        [] OTHER -> Sent(request, encoded.raw))
  /\ UNCHANGED <<db, idle>>

\* The engine: the store after the operations raw.
RECURSIVE Applied(_, _, _)
Applied(store, raw, i) ==
  IF i > Len(raw) THEN store
  ELSE Applied(
         IF raw[i].type = "put"
         THEN [k \in DOMAIN store \cup {raw[i].key} |->
                 IF k = raw[i].key THEN raw[i].value ELSE store[k]]
         ELSE IF raw[i].type = "del"
         THEN [k \in DOMAIN store \ {raw[i].key} |-> store[k]]
         ELSE store,
         raw, i + 1)

\* The errors the engine reports for a write and for a read.
WriteOutcomes == {null, EngineIOError}

ReadOutcomes(key) ==
  IF key \in DOMAIN db THEN {null, EngineIOError} ELSE {EngineNotFound, EngineIOError}

\* The requests of one kind that wait for the engine.
Waiting(op) ==
  {c \in 1..Len(requests) :
     requests[c].op = op /\ requests[c].st = "pending" /\ requests[c].eng = 1}

\* (err) => resolve(new Result(err, null)), after the engine's write
written(c, err) ==
  /\ requests' = [requests EXCEPT ![c].st = "resolved", ![c].engErr = err,
                                  ![c].res = Result(err, <<>>)]
  /\ db' = IF err = null THEN Applied(db, requests[c].raw, 1) ELSE db

putCallback ==
  /\ \E c \in Waiting("put"), err \in WriteOutcomes : written(c, err)
  /\ UNCHANGED idle

delCallback ==
  /\ \E c \in Waiting("del"), err \in WriteOutcomes : written(c, err)
  /\ UNCHANGED idle

batchCallback ==
  /\ \E c \in Waiting("batch"), err \in WriteOutcomes : written(c, err)
  /\ UNCHANGED idle

\* The result get() resolves when the engine reports err and value.
getResult(err, value) ==
  IF err # null
  THEN IF notFoundRegex(err.message) THEN Result(NotFoundError, <<>>)
       ELSE Result(err, <<>>)
  ELSE IF hookThrows(hooks.decode, value)
  THEN Result(EncodingErrorIn("decode in get(): "), <<>>)
  ELSE Result(null, <<hookApply(hooks.decode, value)>>)

\* (err, value) => { ... } of get()
getCallback ==
  /\ \E c \in Waiting("get") :
       \E err \in ReadOutcomes(requests[c].raw[1].key) :
         requests' =
           [requests EXCEPT
              ![c].st = "resolved", ![c].engErr = err,
              ![c].res = getResult(err, IF err = null
                                        THEN db[requests[c].raw[1].key]
                                        ELSE Undefined)]
  /\ UNCHANGED <<db, idle>>

\* A database handle with any accepted options on an open and empty store.
FacadeInit ==
  /\ constructor
  /\ location = TRUE
  /\ dbOpen = TRUE
  /\ options \in {o \in Options : ~AsyncLevelDown(o).threw}
  /\ hooks = AsyncLevelDown(options)
  /\ requests = <<>>
  /\ itr = NoIterator
  /\ legacy = LegacyCursor
  /\ db = <<>>
  /\ gte = 1 /\ lte = MaxKey /\ hasCache = TRUE
  /\ cache = <<>> /\ itPos = gte /\ itFinished = FALSE /\ itLanded = FALSE
  /\ itEnded = 0 /\ finished = FALSE /\ pendingNext = FALSE
  /\ landed = FALSE /\ advance = NoAdvance /\ release = NoRelease
  /\ calls = <<>>

FacadeNext ==
  \/ put \/ get \/ del \/ batch
  \/ putCallback \/ getCallback \/ delCallback \/ batchCallback

FacadeSpec == FacadeInit /\ [][FacadeNext]_vars

\* ---------------------------------------------- AsyncLevelDown.iterator()

\* A list of bound options that leaves out the legacy start and end.
ltgtKeysModern == {"lt", "gt", "lte", "gte"}

\* ltgtKeys
ltgtKeys == {"lt", "gt", "lte", "gte", "start", "end"}

\* The options objects iterator() is called with: a lower bound, an upper
\* bound and the high-water mark.
IteratorOptions ==
  {[k \in {lower, upper, "highWaterMark"} |->
      IF k = lower THEN a ELSE IF k = upper THEN b ELSE HighWaterMark] :
     lower \in {"gte", "gt", "start"}, upper \in {"lte", "lt", "end"},
     a \in {0, 1}, b \in {MaxKey - 2, MaxKey - 1}}

\* The loop of iterator() over Object.keys(options).
copyOptsOf(o) ==
  [k \in DOMAIN o |->
     IF k \in ltgtKeys THEN hookApply(hooks.keyEncode, o[k]) ELSE o[k]]

\* The engine: the first and the last key of the range the options select,
\* start and end being the older names of gte and lte.
LowerBound(o) ==
  IF "gte" \in DOMAIN o THEN o["gte"]
  ELSE IF "gt" \in DOMAIN o THEN o["gt"] + 1
  ELSE IF "start" \in DOMAIN o THEN o["start"]
  ELSE 1

UpperBound(o) ==
  IF "lte" \in DOMAIN o THEN o["lte"]
  ELSE IF "lt" \in DOMAIN o THEN o["lt"] - 1
  ELSE IF "end" \in DOMAIN o THEN o["end"]
  ELSE MaxKey

\* iterator(options): it throws when keyEncode throws on a bound, otherwise
\* the engine opens a cursor on copyOpts.
iterator ==
  /\ ~itr.made
  /\ \E o \in IteratorOptions :
       IF \E k \in DOMAIN o \cap ltgtKeys : hookThrows(hooks.keyEncode, o[k])
       THEN /\ itr' = [made |-> TRUE, threw |-> TRUE, options |-> o,
                       copyOpts |-> NoIterator.copyOpts]
            /\ UNCHANGED <<gte, lte, itPos>>
       ELSE /\ itr' = [made |-> TRUE, threw |-> FALSE, options |-> o,
                       copyOpts |-> copyOptsOf(o)]
            /\ gte' = LowerBound(copyOptsOf(o))
            /\ lte' = UpperBound(copyOptsOf(o))
            /\ itPos' = LowerBound(copyOptsOf(o))
  /\ UNCHANGED <<db, hasCache, cache, itFinished, itLanded, itEnded, finished,
                 pendingNext, landed, advance, release, calls, handle, options,
                 hooks, requests, legacy>>

\* itr.next() of a consumer that awaits every result
itrNext ==
  /\ itr.made /\ ~itr.threw
  /\ awaited
  /\ startAdvancing("next")

\* itr.batchNext() of a consumer that awaits every result
itrBatchNext ==
  /\ itr.made /\ ~itr.threw
  /\ awaited
  /\ startAdvancing("batchNext")

\* A handle with JSON hooks, with or without keyEncode, on any store, before
\* iterator() is called.
IteratorInit ==
  /\ constructor
  /\ location = TRUE
  /\ dbOpen = TRUE
  /\ options \in {o \in Options : o.encode = "JSON.stringify" /\ o.decode = "JSON.parse"}
  /\ hooks = AsyncLevelDown(options)
  /\ requests = <<>>
  /\ itr = NoIterator
  /\ legacy = LegacyCursor
  /\ db \in Stores
  /\ gte = 1 /\ lte = MaxKey /\ hasCache = TRUE
  /\ cache = <<>> /\ itPos = gte /\ itFinished = FALSE /\ itLanded = FALSE
  /\ itEnded = 0 /\ finished = FALSE /\ pendingNext = FALSE
  /\ landed = FALSE /\ advance = NoAdvance /\ release = NoRelease
  /\ calls = <<>>

IteratorSpecNext ==
  \/ iterator
  \/ itrNext
  \/ itrBatchNext
  \/ nextCallback
  \/ onNext
  \/ endCallback

IteratorSpec == IteratorInit /\ [][IteratorSpecNext]_vars

\* ------------------------------- level-async-iterator.js and DecodeIterator

\* A call on the legacy cursor: adv and end count its invocations of
\* DecodeIterator's next and end.
LegacyCall(op) == [op |-> op, st |-> "pending", res |-> NoResult, adv |-> 0, end |-> 0]

\* resolve(r) of call c of the legacy cursor.
LegacyResolved(l, c, r) ==
  [l EXCEPT !.calls[c].st = "resolved", !.calls[c].res = r]

\* What call c resolves when _finish calls back with finishErr: onFinish of
\* next() with the err of its advance, and the callback of close().
legacyOnFinish(op, err, finishErr) ==
  IF op = "close"
  THEN [done |-> FALSE, err |-> finishErr, kind |-> "result",
        keys |-> <<>>, values |-> <<>>]
  ELSE IF err # NoErr \/ finishErr # NoErr
  THEN ErrResult(IF err # NoErr THEN err ELSE finishErr)
  ELSE DoneResult

\* _finish(cb) of the legacy cursor for call c, err being the err of the
\* advance that led to it.
legacyFinish(l, c, err) ==
  IF l.finished
  THEN LegacyResolved(l, c, legacyOnFinish(l.calls[c].op, err, NoErr))
  ELSE [l EXCEPT !.finished = TRUE, !.releasing = [call |-> c, err |-> err],
                 !.calls[c].end = @ + 1]

\* async next() of the legacy cursor: a throw inside it rejects its promise.
legacyNextCall(l) ==
  LET c == Len(l.calls) + 1
      started == [l EXCEPT !.calls = Append(l.calls, LegacyCall("next"))]
  IN IF l.pendingNext THEN [started EXCEPT !.calls[c].st = "rejected"]
     ELSE IF l.finished
     THEN LegacyResolved([started EXCEPT !.pendingNext = FALSE], c, DoneResult)
     ELSE [started EXCEPT !.pendingNext = TRUE, !.advancing = c, !.calls[c].adv = 1]

\* close() of the legacy cursor
legacyCloseCall(l) ==
  legacyFinish([l EXCEPT !.calls = Append(l.calls, LegacyCall("close"))],
               Len(l.calls) + 1, NoErr)

\* A DecodeIterator that hands the raw value on.
DecodeIteratorRaw(o) == o

\* DecodeIterator.next: what it calls back with when the engine calls it back
\* with o.
DecodeIteratorNext(o) ==
  IF o.err # NoErr \/ o.end THEN o
  ELSE IF decodeThrows(o.value) THEN [o EXCEPT !.err = EncodingError]
  ELSE [o EXCEPT !.value = decode(o.value)]

\* The callback the legacy next() gives to DecodeIterator.next, called with d.
legacyCallback(l, d) ==
  LET c == l.advancing
      answered == [l EXCEPT !.pendingNext = FALSE, !.advancing = 0]
  IN IF d.err # NoErr THEN legacyFinish(answered, c, d.err)
     ELSE IF d.end THEN legacyFinish(answered, c, NoErr)
     ELSE LegacyResolved(answered, c, KVResult(d.key, d.value))

\* What the engine called the advance of call c of the current cursor back
\* with.
EngineAnswer(c) ==
  [err |-> IF calls[c].resp = "error" THEN AdvanceError ELSE NoErr,
   end |-> calls[c].resp = "end", key |-> calls[c].key, value |-> calls[c].raw]

\* Both cursors have been given the same calls and all of them resolved.
awaitedBoth ==
  /\ Len(calls) < MaxPulls
  /\ Len(legacy.calls) = Len(calls)
  /\ \A c \in 1..Len(calls) :
       calls[c].st = "resolved" /\ legacy.calls[c].st = "resolved"

\* The consumer calls next() on the current cursor
seqNext ==
  /\ awaitedBoth
  /\ startAdvancing("next")

\* The consumer calls close() on the current cursor
seqClose ==
  /\ awaitedBoth
  /\ _finish(Append(calls, NewCall("close")), Len(calls) + 1, NoErr)
  /\ UNCHANGED <<config, engine, pendingNext, landed, advance, handle, facade>>

\* The same call on the legacy cursor
legacyNext ==
  /\ Len(legacy.calls) < Len(calls)
  /\ calls[Len(legacy.calls) + 1].op = "next"
  /\ legacy' = legacyNextCall(legacy)
  /\ UNCHANGED <<cursor, handle, options, hooks, requests, itr>>

legacyClose ==
  /\ Len(legacy.calls) < Len(calls)
  /\ calls[Len(legacy.calls) + 1].op = "close"
  /\ legacy' = legacyCloseCall(legacy)
  /\ UNCHANGED <<cursor, handle, options, hooks, requests, itr>>

\* The engine calls the legacy cursor's advance back with what it called the
\* current cursor's back with.
legacyNextCallback ==
  /\ legacy.advancing # 0
  /\ calls[legacy.advancing].ans >= 1
  /\ legacy' = legacyCallback(legacy, DecodeIteratorNext(EngineAnswer(legacy.advancing)))
  /\ UNCHANGED <<cursor, handle, options, hooks, requests, itr>>

\* The engine calls the legacy cursor's end() back as it called the current
\* cursor's back.
legacyEndCallback ==
  /\ legacy.releasing.call # 0
  /\ calls[legacy.releasing.call].rel \in {"ok", "failed"}
  /\ LET c == legacy.releasing.call
         finishErr == IF calls[c].rel = "ok" THEN NoErr ELSE ReleaseError
     IN legacy' =
          LegacyResolved([legacy EXCEPT !.releasing = NoRelease], c,
                         legacyOnFinish(legacy.calls[c].op, legacy.releasing.err,
                                        finishErr))
  /\ UNCHANGED <<cursor, handle, options, hooks, requests, itr>>

\* Both cursors over the same store and range, before any call.
LegacyInit == Init /\ hasCache

LegacyNext ==
  \/ seqNext
  \/ seqClose
  \/ nextCallback
  \/ endCallback
  \/ legacyNext
  \/ legacyClose
  \/ legacyNextCallback
  \/ legacyEndCallback

LegacySpec == LegacyInit /\ [][LegacyNext]_vars

\* ------------------------------------------------------------------ claims

CallIds == 1..Len(calls)
AdvancingCalls == {c \in CallIds : calls[c].op \in Advancing}
ResolvedCalls == {c \in CallIds : calls[c].st = "resolved"}

\* The result close() resolves: new Result(err, null).
CloseResult(err) ==
  [done |-> FALSE, err |-> err, kind |-> "result", keys |-> <<>>, values |-> <<>>]

\* C1: a next() or batchNext() call started while an earlier accepted
\* next()/batchNext() call is unresolved throws the concurrent-access error,
\* in every phase of the earlier call.
C1_OverlappingCallThrows ==
  \A c \in AdvancingCalls : calls[c].overlap => calls[c].st = "thrown"

\* C2 as stated: every next() or batchNext() call started on a FINISHED cursor
\* resolves {done:true, value:null} and calls neither advance nor release.
C2_FinishedCallResolvesDone ==
  \A c \in AdvancingCalls :
    calls[c].fin =>
      /\ calls[c].st = "resolved"
      /\ calls[c].res = DoneResult
      /\ calls[c].adv = 0
      /\ calls[c].end = 0

\* C2 as amended: a next() or batchNext() call started on a FINISHED cursor
\* calls neither advance nor release; it resolves {done:true, value:null}
\* unless an earlier call still holds the in-flight guard, and then it throws.
C2_FinishedCallDoneOrThrown ==
  \A c \in AdvancingCalls :
    calls[c].fin =>
      /\ calls[c].adv = 0
      /\ calls[c].end = 0
      /\ IF calls[c].busy
         THEN calls[c].st = "thrown"
         ELSE calls[c].st = "resolved" /\ calls[c].res = DoneResult

\* C2 witness: after a close() and after a done:true, a later next() and a
\* later batchNext() have resolved done:true.
C2_Witness ==
  \E a, b, c \in CallIds :
    /\ a < b /\ b < c
    /\ calls[a].op = "close"
    /\ calls[b].op = "next" /\ calls[b].fin /\ calls[b].res = DoneResult
    /\ calls[c].op = "batchNext" /\ calls[c].fin /\ calls[c].res = DoneResult

\* Every call started when no earlier call was unresolved.
Sequential == \A c \in CallIds : calls[c].alone

\* No call is a close().
NoClose == \A c \in CallIds : calls[c].op # "close"

\* The records call c returned, as <<key, value>> pairs in their order.
RecordsOf(c) ==
  [i \in 1..Len(calls[c].res.keys) |-> <<calls[c].res.keys[i], calls[c].res.values[i]>>]

\* The records the calls 1..n returned, in order.
RECURSIVE Delivered(_)
Delivered(n) == IF n = 0 THEN <<>> ELSE Delivered(n - 1) \o RecordsOf(n)

\* Calls 1..n resolved, none of them with an error.
CleanUpTo(n) ==
  \A c \in 1..n : calls[c].st = "resolved" /\ calls[c].res.err = NoErr

\* Call j is the first to resolve done:true.
FirstDone(j) ==
  /\ j \in ResolvedCalls
  /\ calls[j].res.done
  /\ \A c \in 1..(j - 1) : ~calls[c].res.done

\* The resolved calls form a prefix 1..n of the calls.
ResolvedPrefix(n) == n \in 0..Len(calls) /\ ResolvedCalls = 1..n

IsPrefix(s, t) == Len(s) <= Len(t) /\ s = SubSeq(t, 1, Len(s))

\* Draining a fresh cursor on the store and range with next() alone: the
\* records the engine hands to successive advances, each value decoded.
RECURSIVE drainIterator(_)
drainIterator(e) ==
  LET o == EngineNextFrom(e)
  IN IF o.end THEN <<>>
     ELSE <<<<o.key, decode(o.value)>>>>
          \o drainIterator([cache |-> o.cache, pos |-> o.pos, fin |-> o.fin,
                            landed |-> o.landed])

NextOnlyDrain ==
  drainIterator([cache |-> <<>>, pos |-> gte, fin |-> FALSE, landed |-> FALSE])

\* C3: with no engine error and no decode failure, the records returned by a
\* sequential mix of batchNext() and next() calls are, call after call, a
\* prefix of the records a drain with next() alone returns, and at the first
\* done:true they are exactly those records.
C3_MixEqualsNextDrain ==
  (Sequential /\ NoClose) =>
    \A n \in CallIds :
      (ResolvedPrefix(n) /\ CleanUpTo(n)) =>
        /\ IsPrefix(Delivered(n), NextOnlyDrain)
        /\ FirstDone(n) => Delivered(n) = NextOnlyDrain

\* C3 witness: next(), then a batchNext() that returns three records, then a
\* call that resolves the first done:true.
C3_Witness ==
  /\ Sequential
  /\ Len(calls) = 3
  /\ CleanUpTo(3)
  /\ calls[1].op = "next"
  /\ calls[2].op = "batchNext"
  /\ Len(calls[2].res.keys) = 3
  /\ FirstDone(3)

\* The stored keys of the range.
InRange == {k \in DOMAIN db : gte <= k /\ k <= lte}

\* The records of the range in ascending key order, values decoded.
Ascending ==
  [i \in 1..Cardinality(InRange) |->
     LET k == CHOOSE x \in InRange : Cardinality({y \in InRange : y < x}) = i - 1
     IN <<k, decode(db[k])>>]

\* Every call is a next().
NextOnly == \A c \in CallIds : calls[c].op = "next"

\* C4: sequential next() calls return, up to the first done:true, every
\* stored record of the range exactly once in ascending key order and no
\* record outside the range.
C4_NextDrainsRangeAscending ==
  (Sequential /\ NextOnly) =>
    \A n \in CallIds :
      (ResolvedPrefix(n) /\ CleanUpTo(n)) =>
        /\ IsPrefix(Delivered(n), Ascending)
        /\ FirstDone(n) => Delivered(n) = Ascending

\* C4 witness: a range that leaves out stored keys on both sides is drained
\* by next() calls: two records, then done:true.
C4_Witness ==
  /\ Sequential
  /\ NextOnly
  /\ Len(calls) = 3
  /\ CleanUpTo(3)
  /\ FirstDone(3)
  /\ Len(Delivered(3)) = 2
  /\ \E k \in DOMAIN db : k < gte
  /\ \E k \in DOMAIN db : k > lte

\* C5: the engine cursor's end() is invoked at most once, and it has been
\* invoked by the time an advancing call has resolved done:true or an error,
\* or a close() has resolved.
C5_ReleasedExactlyOnce ==
  /\ itEnded <= 1
  /\ \A c \in ResolvedCalls :
       (calls[c].op = "close" \/ calls[c].res.done \/ calls[c].res.err # NoErr)
         => itEnded = 1

\* C5 witness: a close() raced an advance that then reported an error, and
\* both calls have resolved.
C5_Witness ==
  \E a, b \in ResolvedCalls :
    /\ a < b
    /\ calls[a].op \in Advancing
    /\ calls[a].resp = "error"
    /\ calls[b].op = "close"
    /\ ~calls[b].fin
    /\ itEnded = 1

\* The fate of the one release the cursor invoked: "none" before it,
\* "pending" while it is outstanding, then "ok" or "failed".
ReleaseFate ==
  IF \E c \in CallIds : calls[c].end > 0
  THEN calls[CHOOSE c \in CallIds : calls[c].end > 0].rel
  ELSE "none"

\* The calls that resolved with the release error.
ReleaseErrorCalls == {c \in ResolvedCalls : calls[c].res.err = ReleaseError}

\* The advancing calls the engine answered end-of-range with nothing accumulated.
EndOfRangeCalls ==
  {c \in AdvancingCalls : calls[c].resp = "end" /\ calls[c].got = 0}

\* The advancing calls started after call c and not rejected by the guard all
\* resolved done:true.
LaterCallsDone(c) ==
  \A j \in AdvancingCalls :
    (j > c /\ ~calls[j].busy) => (j \in ResolvedCalls /\ calls[j].res = DoneResult)

\* C6 as stated: whenever the engine reports end-of-range to next() or
\* batchNext() with no records accumulated, the cursor is FINISHED and release
\* invoked, the call resolves done:true if the release succeeds and
\* {done:false, value:{err: releaseError}} if it fails, a release error is
\* delivered by exactly one resolution, release is not retried, and every
\* later advancing call resolves done:true.
C6_EndOfRangeReportsRelease ==
  \A c \in EndOfRangeCalls :
    /\ finished
    /\ itEnded = 1
    /\ c \in ResolvedCalls =>
         /\ ReleaseFate = "ok" => calls[c].res = DoneResult
         /\ ReleaseFate = "failed" => calls[c].res = ErrResult(ReleaseError)
    /\ ReleaseFate = "failed" => Cardinality(ReleaseErrorCalls) = 1
    /\ LaterCallsDone(c)

\* C6 as amended: the same for an end-of-range reported while the cursor is
\* still ACTIVE, where the call itself invokes the release and resolves when
\* the release answers; when close() finished the cursor while the advance was
\* outstanding, the call invokes nothing and resolves done:true at once.
C6_EndOfRangeWhileActive ==
  \A c \in EndOfRangeCalls :
    /\ finished
    /\ itEnded = 1
    /\ Cardinality(ReleaseErrorCalls) <= 1
    /\ LaterCallsDone(c)
    /\ IF calls[c].finCb
       THEN /\ calls[c].end = 0
            /\ c \in ResolvedCalls
            /\ calls[c].res = DoneResult
       ELSE /\ calls[c].end = 1
            /\ calls[c].rel = "pending" => calls[c].st = "pending"
            /\ calls[c].rel = "ok" =>
                 c \in ResolvedCalls /\ calls[c].res = DoneResult
            /\ calls[c].rel = "failed" =>
                 /\ c \in ResolvedCalls
                 /\ calls[c].res = ErrResult(ReleaseError)
                 /\ ReleaseErrorCalls = {c}

\* C6 witness: end-of-range on an ACTIVE cursor, the release failed and was
\* reported by that call, and a later advancing call resolved done:true.
C6_Witness ==
  \E c \in EndOfRangeCalls :
    /\ ~calls[c].finCb
    /\ calls[c].rel = "failed"
    /\ calls[c].res = ErrResult(ReleaseError)
    /\ \E j \in AdvancingCalls : j > c /\ calls[j].res = DoneResult

\* C7: when the engine's advance reports an error to next() or batchNext(),
\* the cursor is FINISHED, release has been invoked, and the call resolves
\* {done:false, value:{err}} with the advance error, also when the release
\* fails.
C7_AdvanceErrorReported ==
  \A c \in AdvancingCalls :
    calls[c].resp = "error" =>
      /\ finished
      /\ itEnded = 1
      /\ IF calls[c].rel = "pending"
         THEN calls[c].st = "pending"
         ELSE c \in ResolvedCalls /\ calls[c].res = ErrResult(AdvanceError)

\* C7 witness: the advance reported an error, the release the call invoked
\* failed too, and the call has resolved.
C7_Witness ==
  \E c \in ResolvedCalls :
    /\ calls[c].op = "batchNext"
    /\ calls[c].resp = "error"
    /\ calls[c].rel = "failed"

\* The next() calls the engine handed a record.
RecordCalls == {c \in CallIds : calls[c].op = "next" /\ calls[c].resp = "record"}

\* What C8 says of every state.
C8_Outcome ==
  \A c \in RecordCalls :
    IF decodeThrows(calls[c].raw)
    THEN /\ finished
         /\ itEnded = 1
         /\ IF calls[c].rel = "pending"
            THEN calls[c].st = "pending"
            ELSE c \in ResolvedCalls /\ calls[c].res = ErrResult(EncodingError)
    ELSE /\ c \in ResolvedCalls
         /\ calls[c].end = 0
         /\ calls[c].res.done = FALSE
         /\ calls[c].res.err = NoErr
         /\ calls[c].res.kind = "kv"
         /\ \E k \in InRange :
              /\ db[k] = calls[c].raw
              /\ calls[c].res.keys = <<k>>
              /\ calls[c].res.values = <<decode(calls[c].raw)>>

\* What C8 says of the step in which next() resolves a record: finished and
\* the engine's release are left as they were.
C8_Step ==
  (\E c \in CallIds :
     /\ calls[c].op = "next"
     /\ calls[c].st = "pending"
     /\ calls'[c].st = "resolved"
     /\ calls'[c].res.kind = "kv")
  => (finished' = finished /\ itEnded' = itEnded /\ release' = release)

\* C8: when decode throws on the value next() received, the cursor is
\* FINISHED, release is invoked and the call resolves the EncodingError with
\* no data (nothing is thrown); otherwise next() resolves the key with the
\* decoded value and leaves the cursor as it was (ACTIVE stays ACTIVE).
C8_NextDecodes == []C8_Outcome /\ [][C8_Step]_vars

\* C8 witness: one next() resolved a record on a cursor that is still ACTIVE,
\* and the following next() resolved the EncodingError.
C8_Witness ==
  \E a, b \in RecordCalls :
    /\ a < b
    /\ calls[a].res.kind = "kv"
    /\ ~calls[b].finCb
    /\ calls[b].res = ErrResult(EncodingError)

\* C9: close() never throws and calls no advance; on an ACTIVE cursor it sets
\* FINISHED, invokes release once and resolves {err: releaseError} or
\* {err: null}; on a FINISHED cursor it resolves {err: null} without calling
\* the engine.
C9_CloseIdempotent ==
  \A c \in CallIds :
    calls[c].op = "close" =>
      /\ calls[c].st \in {"pending", "resolved"}
      /\ calls[c].adv = 0
      /\ finished
      /\ itEnded = 1
      /\ IF calls[c].fin
         THEN /\ calls[c].end = 0
              /\ c \in ResolvedCalls
              /\ calls[c].res = CloseResult(NoErr)
         ELSE /\ calls[c].end = 1
              /\ calls[c].rel = "pending" => calls[c].st = "pending"
              /\ calls[c].rel = "ok" =>
                   c \in ResolvedCalls /\ calls[c].res = CloseResult(NoErr)
              /\ calls[c].rel = "failed" =>
                   c \in ResolvedCalls /\ calls[c].res = CloseResult(ReleaseError)

\* C9 witness: a close() on an ACTIVE cursor resolved the release error, and a
\* second close() resolved {err: null}.
C9_Witness ==
  \E a, b \in ResolvedCalls :
    /\ a < b
    /\ calls[a].op = "close"
    /\ calls[a].res = CloseResult(ReleaseError)
    /\ calls[b].op = "close"
    /\ calls[b].res = CloseResult(NoErr)

\* C10: a batchNext() that resolves done:false without an error returns keys
\* and values of one length, at least 1, values[i] being the decoded value
\* stored under keys[i]; a batchNext() resolves done:true only when it
\* accumulated no record.
C10_BatchAligned ==
  \A c \in ResolvedCalls :
    calls[c].op = "batchNext" =>
      /\ (~calls[c].res.done /\ calls[c].res.err = NoErr) =>
           /\ calls[c].res.kind = "multi"
           /\ Len(calls[c].res.keys) = Len(calls[c].res.values)
           /\ Len(calls[c].res.keys) >= 1
           /\ Len(calls[c].res.keys) = calls[c].got
           /\ \A i \in 1..Len(calls[c].res.keys) :
                /\ calls[c].res.keys[i] \in InRange
                /\ calls[c].res.values[i] = decode(db[calls[c].res.keys[i]])
      /\ calls[c].res.done => calls[c].got = 0

\* C10 witness: a batchNext() returned a fetched record and two records
\* drained from the cache, and a later batchNext() resolved done:true.
C10_Witness ==
  \E a, b \in ResolvedCalls :
    /\ a < b
    /\ calls[a].op = "batchNext"
    /\ Len(calls[a].res.keys) >= 3
    /\ calls[b].op = "batchNext"
    /\ calls[b].resp = "end"
    /\ calls[b].res.done

\* The batchNext() calls whose batch holds a value decode throws on.
DecodeFailedCalls ==
  {c \in CallIds :
     /\ calls[c].op = "batchNext"
     /\ \E i \in 1..Len(calls[c].vals) : decodeThrows(calls[c].vals[i])}

\* The batchNext() calls the engine answered with an error.
AdvanceFailedCalls ==
  {c \in CallIds : calls[c].op = "batchNext" /\ calls[c].resp = "error"}

\* The error a failed batchNext() call reports.
BatchError(c) == IF calls[c].resp = "error" THEN AdvanceError ELSE EncodingError

\* C11: when decode throws on any one value of a batch, or the engine reports
\* an error on either advance of the call, the cursor is FINISHED, release has
\* been invoked, and batchNext() resolves {done:false, value:{err}} with that
\* error alone: no keys and no values, whatever was fetched and decodable.
C11_BatchFailsWhole ==
  \A c \in DecodeFailedCalls \cup AdvanceFailedCalls :
    /\ finished
    /\ itEnded = 1
    /\ calls[c].st \in {"pending", "resolved"}
    /\ calls[c].rel = "pending" => calls[c].st = "pending"
    /\ calls[c].rel # "pending" =>
         /\ c \in ResolvedCalls
         /\ calls[c].res = ErrResult(BatchError(c))
         /\ calls[c].res.keys = <<>>
         /\ calls[c].res.values = <<>>

\* C11 witness: a batchNext() fetched a decodable record and then a damaged
\* one, and resolved the EncodingError.
C11_Witness ==
  \E c \in DecodeFailedCalls \cap ResolvedCalls :
    /\ Len(calls[c].vals) >= 2
    /\ ~decodeThrows(calls[c].vals[1])
    /\ calls[c].res = ErrResult(EncodingError)

\* No stored value of the range is damaged.
Decodable == \A k \in InRange : ~decodeThrows(db[k])

\* C12: on a fresh cursor of an engine with a cache, over a range of n >= 1
\* decodable records of which all after the first fit in one fetch, a first
\* batchNext() call the engine answers without an error returns all n records
\* of the range in scan order in its one batch.
C12_FirstBatchReturnsRange ==
  ( /\ Len(calls) >= 1
    /\ calls[1].op = "batchNext"
    /\ calls[1].st = "resolved"
    /\ calls[1].resp # "error"
    /\ hasCache
    /\ Decodable
    /\ Cardinality(InRange) >= 1
    /\ Cardinality(InRange) - 1 <= HighWaterMark )
  => /\ calls[1].res.done = FALSE
     /\ calls[1].res.err = NoErr
     /\ calls[1].res.kind = "multi"
     /\ RecordsOf(1) = Ascending

\* C12 witness: the first batchNext() advanced the engine twice and returned a
\* range of as many records as one record and one full fetch hold.
C12_Witness ==
  /\ Len(calls) >= 1
  /\ calls[1].op = "batchNext"
  /\ calls[1].st = "resolved"
  /\ calls[1].adv = 2
  /\ Cardinality(InRange) = HighWaterMark + 1
  /\ RecordsOf(1) = Ascending

\* C13: no batch returned by batchNext(), the first one of a cursor included,
\* holds more records than the engine reads into its cache in one fetch.
C13_BatchWithinReadAhead ==
  \A c \in ResolvedCalls :
    calls[c].op = "batchNext" => Len(calls[c].res.keys) <= HighWaterMark

\* The calls that resolved an error.
ErrorCalls == {c \in ResolvedCalls : calls[c].res.err # NoErr}

\* A pull has resolved done:true.
PullDone == \E c \in ResolvedCalls : calls[c].res.done

\* At most one pull resolved an error, the pull after it resolved done:true,
\* and the pulls are no more than the records of the range, one error and
\* the done:true.
PullErrorOnce ==
  /\ Cardinality(ErrorCalls) <= 1
  /\ \A c \in ErrorCalls :
       (c + 1) \in CallIds => calls[c + 1].st = "resolved" /\ calls[c + 1].res = DoneResult
  /\ Len(calls) <= Cardinality(InRange) + 2

\* The consumer is never stuck short of done:true: every pull is resolved or
\* has exactly one engine callback outstanding, it takes at most two advances
\* and one release of the engine, and a consumer whose pulls have all resolved
\* without done:true can pull again.
PullProgress ==
  /\ \A c \in CallIds :
       /\ calls[c].st \in {"pending", "resolved"}
       /\ calls[c].st = "pending" <=> (advance.call = c \/ release.call = c)
       /\ ~(advance.call = c /\ release.call = c)
       /\ calls[c].adv <= 2
       /\ calls[c].ans <= calls[c].adv
       /\ calls[c].end <= 1
  /\ (ResolvedCalls = CallIds /\ ~PullDone) => Len(calls) < MaxPulls

\* C14: a consumer that pulls sequentially and stops at the first done:true
\* reaches it, whatever the engine reports: each pull resolves after a bounded
\* number of engine callbacks, the pulls are bounded by the size of the
\* range, at most one result carries an error, and the pull after that one
\* resolves done:true.
C14_PullTerminates == PullErrorOnce /\ PullProgress

\* C14 witness: the consumer got a record, then the error of a failed release
\* at end-of-range, then done:true.
C14_Witness ==
  /\ Len(calls) = 3
  /\ calls[1].res.kind \in {"kv", "multi"}
  /\ calls[2].res = ErrResult(ReleaseError)
  /\ calls[3].res = DoneResult

\* The advances call c issued that the engine has not answered; an advance
\* the engine refused by throwing is not outstanding.
OutstandingOf(c) ==
  IF calls[c].st = "hung" THEN 0 ELSE calls[c].adv - calls[c].ans

\* The advances of calls 1..n outstanding at the engine.
RECURSIVE Outstanding(_)
Outstanding(n) == IF n = 0 THEN 0 ELSE Outstanding(n - 1) + OutstandingOf(n)

\* C15: at most one advance issued by the cursor is outstanding at the engine:
\* a next() or batchNext() started while the guard is held is thrown and
\* issues none, and batchNext() issues its second advance only once the first
\* has been answered.
C15_OneAdvanceOutstanding ==
  /\ Outstanding(Len(calls)) <= 1
  /\ Outstanding(Len(calls)) = 1 => (advance.call # 0 /\ pendingNext)
  /\ \A c \in AdvancingCalls :
       /\ calls[c].busy => (calls[c].st = "thrown" /\ calls[c].adv = 0)
       /\ calls[c].adv <= 2
       /\ calls[c].adv = 2 => (calls[c].op = "batchNext" /\ calls[c].ans >= 1)

\* C15 witness: a batchNext() has its second advance outstanding, and a
\* next() made meanwhile was thrown.
C15_Witness ==
  \E a, b \in AdvancingCalls :
    /\ a < b
    /\ calls[a].adv = 2
    /\ calls[a].ans = 1
    /\ advance.call = a
    /\ calls[b].st = "thrown"

\* C16: finished is false on a cursor no call was made on, and no call and no
\* engine callback takes it from true back to false.
C16_FinishedMonotonic ==
  /\ [](calls = <<>> => ~finished)
  /\ [][finished => finished']_vars

\* C16 witness: on a cursor finished by an advance error, the failed release
\* was answered, a close() and a further batchNext() were made, and finished
\* is still true.
C16_Witness ==
  /\ finished
  /\ Len(calls) = 3
  /\ ResolvedCalls = CallIds
  /\ calls[1].resp = "error"
  /\ calls[1].rel = "failed"
  /\ calls[2].op = "close"
  /\ calls[3].op = "batchNext"

\* What C17 says of the step in which a next() or batchNext() call resolves:
\* the guard is clear when it has resolved.
C17_Step ==
  \A c \in 1..Len(calls') :
    ( /\ calls'[c].op \in Advancing
      /\ calls'[c].st = "resolved"
      /\ (c > Len(calls) \/ calls[c].st # "resolved") )
    => ~pendingNext'

\* What C17 says of every state: a next() or batchNext() made when every
\* earlier call had resolved or been thrown found the guard clear and was not
\* thrown.
C17_Awaited ==
  \A c \in AdvancingCalls :
    calls[c].alone => (~calls[c].busy /\ calls[c].st # "thrown")

\* C17: in every branch of next() and batchNext() pendingNext is false at the
\* moment the call resolves, so a call made after awaiting the results so far
\* is never rejected as concurrent.
C17_GuardClearOnResolve == []C17_Awaited /\ [][C17_Step]_vars

\* C17 witness: a next() resolved a record, the batchNext() awaited after it
\* resolved an EncodingError, and the batchNext() awaited after that resolved
\* done:true.
C17_Witness ==
  /\ Len(calls) = 3
  /\ Sequential
  /\ calls[1].op = "next"
  /\ calls[1].res.kind = "kv"
  /\ calls[2].op = "batchNext"
  /\ calls[2].res = ErrResult(EncodingError)
  /\ calls[3].op = "batchNext"
  /\ calls[3].res = DoneResult
  /\ ~pendingNext

HandleCallIds == 1..Len(handleCalls)
EnsureCalls == {c \in HandleCallIds : handleCalls[c].op = "ensure"}

\* The attempts of _ensure() that got as far as the engine's open.
OpenAttempts ==
  {p \in 1..Len(promises) : promises[p].st \in {"open", "opened", "resolved"}}

\* The attempts of _ensure() whose open the engine failed.
FailedAttempts ==
  {p \in 1..Len(promises) :
     promises[p].st \in {"opened", "resolved"} /\ promises[p].err = OpenError}

\* C18: in every interleaving of ensure() calls with open(), close() and the
\* engine's callbacks, ensure() invokes the engine's open at most once on a
\* handle: a caller arriving while an attempt is in flight waits on that
\* attempt, and no attempt follows a failed one or a successful one.
C18_EnsureOpensOnce ==
  /\ ensureOpens <= 1
  /\ Cardinality(OpenAttempts) = ensureOpens
  /\ Cardinality({p \in 1..Len(promises) :
                    promises[p].st \in {"mkdir", "open", "opened"}}) <= 1

\* C18 witness: the open of the one attempt failed; the caller that started it
\* and a caller that shared it have settled, and an ensure() made after that
\* has thrown without another open.
C18_Witness ==
  \E a, b, c \in EnsureCalls :
    /\ a < b /\ b < c
    /\ handleCalls[a].role = "started"
    /\ handleCalls[a].st = "thrown"
    /\ handleCalls[a].err = OpenError
    /\ handleCalls[b].role = "shared"
    /\ handleCalls[b].st # "pending"
    /\ handleCalls[c].role = "started"
    /\ handleCalls[c].st = "thrown"
    /\ ensureOpens = 1

\* C19: when the engine's open fails, every ensure() that waited on that
\* attempt, the caller that started it and the callers that shared it, throws
\* the open error.
C19_OpenErrorThrownToAll ==
  \A c \in EnsureCalls :
    (handleCalls[c].p \in FailedAttempts /\ handleCalls[c].st # "pending")
      => (handleCalls[c].st = "thrown" /\ handleCalls[c].err = OpenError)

\* C20: whenever an ensure() resolves without throwing, the database is open
\* at that moment.
C20_EnsureResolvedMeansOpen ==
  \A c \in EnsureCalls : handleCalls[c].st = "resolved" => handleCalls[c].openAt

\* --------------------------------------------------- put, get, del, batch

RequestIds == 1..Len(requests)

\* The get() requests that the engine has answered.
AnsweredGets ==
  {g \in RequestIds : requests[g].op = "get" /\ requests[g].st = "resolved"}

\* C21: a get() the engine answers with its not-found error resolves a
\* NotFoundError with notFound = TRUE and no data; a get() the engine answers
\* with an error whose message does not match the regex resolves that very
\* error; and a get() that reached the engine never throws.
C21_GetNotFound ==
  /\ \A g \in AnsweredGets :
       /\ requests[g].engErr = EngineNotFound =>
            /\ requests[g].res.err.notFound = TRUE
            /\ requests[g].res.err.name = "NotFoundError"
            /\ requests[g].res.data = <<>>
       /\ (requests[g].engErr # null /\ ~notFoundRegex(requests[g].engErr.message)) =>
            requests[g].res = Result(requests[g].engErr, <<>>)
  /\ \A g \in RequestIds :
       (requests[g].op = "get" /\ requests[g].eng = 1) =>
         requests[g].st \in {"pending", "resolved"}

\* A key is put, deleted and then read: the read resolves a NotFoundError.
C21_Witness ==
  \E p, d, g \in RequestIds :
    /\ requests[p].op = "put" /\ requests[d].op = "del" /\ requests[g].op = "get"
    /\ requests[p].key = requests[g].key /\ requests[d].key = requests[g].key
    /\ requests[p].res.err = null /\ requests[d].res.err = null
    /\ p \in requests[d].seen /\ d \in requests[g].seen
    /\ requests[g].st = "resolved"
    /\ requests[g].res.err.notFound = TRUE

\* The requests whose engine call writes key k.
Writes(k) ==
  {x \in RequestIds :
     /\ requests[x].eng = 1
     /\ \E i \in 1..Len(requests[x].raw) :
          /\ requests[x].raw[i].type \in {"put", "del"}
          /\ requests[x].raw[i].key = hookApply(hooks.keyEncode, k)}

\* Request w resolved without error and the last thing it did to key k was to
\* put value v.
PutBy(w, k, v) ==
  /\ requests[w].st = "resolved" /\ requests[w].res.err = null
  /\ w \in Writes(k)
  /\ \E i \in 1..Len(requests[w].raw) :
       /\ requests[w].raw[i].key = hookApply(hooks.keyEncode, k)
       /\ requests[w].raw[i].type = "put"
       /\ v = IF requests[w].op = "put" THEN requests[w].value
              ELSE requests[w].ops[i].value
       /\ \A j \in (i + 1)..Len(requests[w].raw) :
            requests[w].raw[j].key # hookApply(hooks.keyEncode, k)

\* C22: when the hooks satisfy decode(encode(v)) = v, a put(k, v) or a batch
\* that puts v under k has resolved without error before get(k) starts, every
\* other write to k was over before that write started or starts after the
\* get is answered, and the engine reports no I/O error to the get, then
\* get(k) resolves {err: null, data: v}.
C22_PutGetRoundTrip ==
  \A g \in AnsweredGets : \A w \in requests[g].seen : \A v \in Values :
    ( /\ PutBy(w, requests[g].key, v)
      /\ ~hookThrows(hooks.decode, hookApply(hooks.encode, v))
      /\ hookApply(hooks.decode, hookApply(hooks.encode, v)) = v
      /\ \A x \in Writes(requests[g].key) \ {w} :
           x \in requests[w].seen \/ g \in requests[x].seen
      /\ requests[g].engErr # EngineIOError )
    => requests[g].res = Result(null, <<v>>)

\* With JSON hooks a batch puts a value that a get() then reads back.
C22_Witness ==
  \E g \in AnsweredGets : \E w \in requests[g].seen :
    /\ hooks.encode = "JSON.stringify" /\ hooks.decode = "JSON.parse"
    /\ requests[w].op = "batch" /\ Len(requests[w].ops) = MaxBatch
    /\ PutBy(w, requests[g].key, 1)
    /\ requests[g].res = Result(null, <<1>>)

\* encode is called on a value of request c and throws: for put() after
\* keyEncode returned, for batch() at the first operation where a hook throws.
EncodeFailed(c) ==
  \/ /\ requests[c].op = "put"
     /\ ~hookThrows(hooks.keyEncode, requests[c].key)
     /\ hookThrows(hooks.encode, requests[c].value)
  \/ /\ requests[c].op = "batch"
     /\ \E i \in 1..Len(requests[c].ops) :
          /\ hookThrows(hooks.encode, requests[c].ops[i].value)
          /\ \A j \in 1..(i - 1) :
               /\ ~hookThrows(hooks.encode, requests[c].ops[j].value)
               /\ ~hookThrows(hooks.keyEncode, requests[c].ops[j].key)

C23_Step ==
  \A c \in 1..Len(requests') :
    EncodeFailed(c)' =>
      /\ requests'[c].st = "resolved"
      /\ requests'[c].res = Result(EncodingErrorIn(IF requests'[c].op = "put"
                                                   THEN "encode in put(): "
                                                   ELSE "encode in batch(): "), <<>>)
      /\ requests'[c].eng = 0 /\ requests'[c].raw = <<>>
      /\ c > Len(requests) => db' = db

\* C23: a put() or batch() in which encode throws resolves an EncodingError
\* result in the step that makes the call, hands nothing to the engine then or
\* later, and leaves the store as it was.
C23_EncodeFailureShortCircuits == [][C23_Step]_vars

\* A batch whose second value encode throws on, after a put that encodes, has
\* resolved an EncodingError and the store is still empty.
C23_Witness ==
  \E c \in RequestIds :
    /\ requests[c].op = "batch" /\ Len(requests[c].ops) = MaxBatch
    /\ requests[c].ops[1].type = "put"
    /\ ~hookThrows(hooks.encode, requests[c].ops[1].value)
    /\ hookThrows(hooks.encode, requests[c].ops[MaxBatch].value)
    /\ requests[c].res.err.name = "EncodingError"
    /\ Len(requests) = 1 /\ db = <<>>

\* C24: no put(), get(), del() or batch() throws or returns a promise that
\* rejects: a call in which a hook throws resolves an EncodingError result.
C24_HookFailuresCaught ==
  \A c \in RequestIds :
    /\ requests[c].st \in {"pending", "resolved"}
    /\ (\/ hookThrows(hooks.keyEncode, requests[c].key)
        \/ \E i \in 1..Len(requests[c].ops) :
             hookThrows(hooks.keyEncode, requests[c].ops[i].key))
         => requests[c].res.err.name = "EncodingError"

\* C25: a handle constructed with valueEncoding 'json' encodes values with
\* JSON.stringify and decodes them with JSON.parse.
C25_JsonValueEncoding ==
  options.valueEncoding = "json" =>
    /\ hooks.encode = "JSON.stringify"
    /\ hooks.decode = "JSON.parse"

\* ------------------------------------------------ batchNext, second part

C26_Step ==
  /\ landed => landed'
  /\ \A c \in 1..Len(calls') :
       calls'[c].op = "batchNext" =>
         /\ calls'[c].adv <= 2
         /\ (calls'[c].lnd /\ ~calls'[c].fin /\ calls'[c].st # "thrown")
              => calls'[c].adv = 1
         /\ (c <= Len(calls) /\ calls'[c].adv > calls[c].adv) =>
              /\ calls[c].adv = 1 /\ calls[c].ans = 0
              /\ calls'[c].resp = "record"
              /\ cache' = <<>>
              /\ ~landed /\ landed'

\* C26: a batchNext() invokes the engine's advance at most twice; it invokes
\* it a second time only in the step where its first advance is answered with
\* a record, the engine's cache is empty after it and _landed was FALSE, and
\* that step sets _landed; _landed is never reset; and a batchNext() that
\* starts on a landed, unfinished cursor invokes advance exactly once.
C26_SecondAdvanceOnce == [][C26_Step]_vars

\* A first batchNext() advanced twice and resolved, and a later batchNext()
\* advanced once and resolved.
C26_Witness ==
  \E c, e \in 1..Len(calls) :
    /\ c < e
    /\ calls[c].op = "batchNext" /\ calls[c].adv = 2 /\ calls[c].st = "resolved"
    /\ calls[e].op = "batchNext" /\ calls[e].lnd /\ calls[e].adv = 1
    /\ calls[e].st = "resolved"

\* The keys the resolved calls returned, in the order of the calls.
RECURSIVE ReturnedKeys(_)
ReturnedKeys(n) ==
  IF n = 0 THEN <<>>
  ELSE ReturnedKeys(n - 1)
         \o (IF calls[n].st = "resolved" THEN calls[n].res.keys ELSE <<>>)

C27_Step ==
  \A c \in 1..Len(calls) :
    ( /\ calls[c].op = "batchNext"
      /\ calls[c].st = "pending"
      /\ calls'[c].st = "resolved"
      /\ calls'[c].res.kind = "multi" ) =>
      LET keys == calls'[c].res.keys
      IN /\ cache' = <<>>
         /\ keys # <<>>
         /\ \A i \in 1..Len(keys) :
              /\ keys[i] \in DOMAIN db
              /\ calls'[c].res.values[i] = decode(db[keys[i]])
              /\ i > 1 => keys[i] = ReadKey(keys[i - 1] + 1)
         /\ ReadKey(keys[Len(keys)] + 1) = ReadKey(itPos')
         /\ \A i, j \in 1..Len(ReturnedKeys(Len(calls))') :
              i < j => ReturnedKeys(Len(calls))'[i] < ReturnedKeys(Len(calls))'[j]

\* C27: in the step in which a batchNext() resolves records the engine's
\* cache is left empty, the batch is a run of consecutive records of the
\* range in scan order, each once and with its own decoded value, the engine
\* cursor stands right after the last of them, and the keys that all resolved
\* calls returned so far are strictly ascending: none was returned twice.
C27_DrainedOnce == [][C27_Step]_vars

\* A batchNext() returned the record it fetched and two it drained from the
\* cache, after a next() returned the record before them.
C27_Witness ==
  \E c \in 1..Len(calls) :
    /\ calls[c].op = "batchNext" /\ calls[c].st = "resolved"
    /\ calls[c].adv = 1 /\ Len(calls[c].res.keys) = HighWaterMark
    /\ c > 1 /\ calls[c - 1].op = "next" /\ calls[c - 1].res.kind = "kv"
    /\ cache = <<>>

\* Call c is a batchNext() that resolved the records it held when the engine
\* reported end-of-range.
EndedWithRecords(cs, c) ==
  /\ cs[c].op = "batchNext" /\ cs[c].st = "resolved"
  /\ cs[c].resp = "end" /\ cs[c].res.kind = "multi"

\* Call e is an accepted next() or batchNext() on an unfinished cursor and the
\* accepted next() or batchNext() before it ended with records.
FollowsEndWithRecords(cs, e) ==
  /\ cs[e].op \in Advancing /\ cs[e].st # "thrown" /\ ~cs[e].fin
  /\ \E c \in 1..(e - 1) :
       /\ EndedWithRecords(cs, c)
       /\ \A x \in (c + 1)..(e - 1) :
            cs[x].op \notin Advancing \/ cs[x].st = "thrown"

C29_Step ==
  /\ \A c \in 1..Len(calls) :
       ( /\ calls[c].op = "batchNext" /\ calls[c].st = "pending"
         /\ calls'[c].ans > calls[c].ans /\ calls'[c].resp = "end"
         /\ advance.keys # <<>> /\ ~decodeFails(advance.values) ) =>
         /\ calls'[c].st = "resolved"
         /\ calls'[c].res = MultiResult(advance.keys, decodeAll(advance.values))
         /\ calls'[c].end = 0
         /\ UNCHANGED <<finished, release, itEnded>>
  /\ \A e \in 1..Len(calls') :
       FollowsEndWithRecords(calls', e) =>
         /\ calls'[e].adv = 1
         /\ itFinished
         /\ (e <= Len(calls) /\ calls'[e].ans > calls[e].ans) =>
              /\ calls'[e].resp \in {"end", "error"}
              /\ finished'
              /\ ~finished => (calls'[e].end = 1 /\ release'.call = e)

\* C29: a batchNext() whose advance is answered end-of-range while it holds
\* records that decode resolves {done: false} with those records in that step,
\* which leaves finished as it was and invokes no release; the next accepted
\* next() or batchNext() on the still unfinished cursor invokes advance on an
\* engine cursor that has already reported the end, and the answer to it
\* finishes the cursor and invokes the release.
C29_EndWithRecordsStaysActive == [][C29_Step]_vars

\* A range of one record: batchNext() resolved it after two advances and the
\* cursor is not finished; the next batchNext() advanced again, finished the
\* cursor and resolved done.
C29_Witness ==
  \E c, e \in 1..Len(calls) :
    /\ c < e
    /\ EndedWithRecords(calls, c) /\ calls[c].adv = 2 /\ Len(calls[c].res.keys) = 1
    /\ FollowsEndWithRecords(calls, e) /\ calls[e].op = "batchNext"
    /\ calls[e].end = 1 /\ calls[e].st = "resolved" /\ calls[e].res = DoneResult
    /\ finished

C30_Step ==
  ( /\ Len(calls') = Len(calls) + 1
    /\ calls'[Len(calls')].st = "thrown" ) =>
    /\ calls'[Len(calls')].op \in Advancing
    /\ calls'[Len(calls')].adv = 0 /\ calls'[Len(calls')].end = 0
    /\ SubSeq(calls', 1, Len(calls)) = calls
    /\ pendingNext
    /\ UNCHANGED <<db, gte, lte, hasCache, cache, itPos, itFinished, itLanded,
                   itEnded, finished, pendingNext, landed, advance, release,
                   handle, facade>>

\* C30: the step in which a next() or batchNext() throws the concurrent-access
\* error adds the thrown call to the record of calls and changes nothing
\* else: finished, pendingNext, _landed, the engine cursor and its cache, the
\* outstanding advance and release and every other call are as before, and
\* the thrown call invoked neither advance nor release.
C30_ThrownCallChangesNothing == [][C30_Step]_vars

\* A batchNext() thrown while a next() was in flight, and that next() then
\* resolved its record.
C30_Witness ==
  /\ Len(calls) >= 2
  /\ calls[1].op = "next" /\ calls[2].op = "batchNext"
  /\ calls[2].st = "thrown" /\ calls[2].overlap
  /\ calls[1].st = "resolved" /\ calls[1].res.kind = "kv"

\* ---------------------------------------------------------------- iterator

\* C28: the options the engine's cursor is opened with have the keys of the
\* options given to iterator(); lt, gt, lte, gte, start and end hold keyEncode
\* of the given bound and every other option the given value; and every
\* record a next() or batchNext() of that cursor returns has a key as the
\* engine stores it, within the encoded bounds, with the decoded value of
\* that key's record.
C28_IteratorEncodesBounds ==
  (itr.made /\ ~itr.threw) =>
    /\ DOMAIN itr.copyOpts = DOMAIN itr.options
    /\ \A k \in DOMAIN itr.options :
         itr.copyOpts[k] =
           IF k \in {"lt", "gt", "lte", "gte", "start", "end"}
           THEN hookApply(hooks.keyEncode, itr.options[k])
           ELSE itr.options[k]
    /\ \A c \in 1..Len(calls) :
         calls[c].st = "resolved" =>
           \A i \in 1..Len(calls[c].res.keys) :
             /\ calls[c].res.keys[i] \in DOMAIN db
             /\ LowerBound(itr.copyOpts) <= calls[c].res.keys[i]
             /\ calls[c].res.keys[i] <= UpperBound(itr.copyOpts)
             /\ calls[c].res.values[i]
                  = hookApply(hooks.decode, db[calls[c].res.keys[i]])

\* With charwise.encode for keyEncode, a cursor opened with start and lt
\* returned in one batchNext() the records from the encoded start on, and
\* the high-water mark reached the engine as given.
C28_Witness ==
  /\ hooks.keyEncode = "charwise.encode"
  /\ itr.made /\ ~itr.threw
  /\ DOMAIN itr.options = {"start", "lt", "highWaterMark"}
  /\ itr.copyOpts["start"] = itr.options["start"] + 1
  /\ itr.copyOpts["highWaterMark"] = itr.options["highWaterMark"]
  /\ Len(calls) >= 1
  /\ calls[1].op = "batchNext" /\ calls[1].st = "resolved"
  /\ Len(calls[1].res.keys) >= 2
  /\ calls[1].res.keys[1] = itr.copyOpts["start"]

\* ------------------------------------------------------ close() in a race

\* The step is a close(): it is not thrown, and on an unfinished cursor it
\* sets finished and invokes the release, whatever advance is outstanding.
C31_CloseStep ==
  ( /\ Len(calls') = Len(calls) + 1
    /\ calls'[Len(calls')].op = "close" ) =>
    /\ calls'[Len(calls')].st # "thrown"
    /\ advance' = advance /\ pendingNext' = pendingNext
    /\ ~finished =>
         /\ finished'
         /\ itEnded' = itEnded + 1
         /\ release'.call = Len(calls')

\* Call c has its advance answered in this step with a record whose value
\* decodes, on a cursor that close() has finished.
C31_RecordAfterClose(c) ==
  /\ calls[c].op \in Advancing /\ calls[c].st = "pending"
  /\ calls'[c].ans > calls[c].ans
  /\ calls'[c].resp = "record" /\ ~decodeThrows(calls'[c].raw)
  /\ finished

\* The record is delivered: the call resolves {done: false} with data that
\* holds the record, and no release is invoked.
C31_Delivered(c) ==
  /\ calls'[c].st = "resolved"
  /\ calls'[c].res.done = FALSE /\ calls'[c].res.err = NoErr
  /\ calls'[c].res.kind \in {"kv", "multi"}
  /\ \E i \in 1..Len(calls'[c].res.values) :
       calls'[c].res.values[i] = decode(calls'[c].raw)
  /\ itEnded' = itEnded /\ itEnded = 1

C31_Step ==
  /\ C31_CloseStep
  /\ \A c \in 1..Len(calls) :
       (C31_RecordAfterClose(c) /\ hasCache /\ ~decodeFails(calls'[c].vals)) =>
         \/ C31_Delivered(c)
         \/ /\ calls'[c].st = "pending"
            /\ calls'[c].adv > calls[c].adv

\* C31: close() is never thrown and finishes and releases an unfinished
\* cursor at once, whatever advance is outstanding; and when the outstanding
\* advance of next() or batchNext() then calls back with a record, the call
\* resolves {done: false} with data that holds the record, at once or after
\* the second advance batchNext() waits for, and no second release is invoked.
C31_CloseRaceDelivers == [][C31_Step]_vars

\* ------------------------------------------------- finished and release

C32_Step ==
  /\ finished <=> itEnded >= 1
  /\ finished' <=> itEnded' >= 1
  /\ itEnded' # itEnded => (~finished /\ finished' /\ itEnded' = itEnded + 1)
  /\ (finished' /\ ~finished) =>
       /\ itEnded' = itEnded + 1
       /\ release'.call # 0 /\ calls'[release'.call].end = 1

\* C32: in every state finished is TRUE exactly when the engine's end() has
\* been invoked; a step invokes end() only on an unfinished cursor and sets
\* finished in doing so, and a step that sets finished invokes end().
C32_FinishedIffReleased == [][C32_Step]_vars

\* An advance that reported end-of-range finished the cursor and invoked the
\* release, which then called back.
C32_Witness ==
  \E c \in 1..Len(calls) :
    /\ calls[c].op \in Advancing /\ calls[c].resp = "end"
    /\ calls[c].end = 1 /\ calls[c].rel = "ok"
    /\ finished /\ itEnded = 1

\* ---------------------------------------------------------- every call ends

C33_Step ==
  (hasCache /\ \A c \in 1..Len(calls') : calls'[c].st # "hung") =>
    /\ \A c \in 1..Len(calls') :
         calls'[c].st = "pending" => (advance'.call = c \/ release'.call = c)
    /\ \A c \in 1..Len(calls) :
         (calls[c].st = "pending" /\ calls'[c] # calls[c]) =>
           \/ calls'[c].st = "resolved"
           \/ /\ advance.call = c /\ release'.call = c /\ release.call # c
           \/ /\ advance.call = c /\ advance'.call = c
              /\ calls[c].adv = 1 /\ calls'[c].adv = 2

\* C33: on an engine with a cache array that calls back every advance and
\* release (no call of the engine throws), every accepted call that has not
\* resolved waits for exactly an outstanding advance or release of its own,
\* and every callback of a call resolves it or moves it one step on, from its
\* first advance to its second or from an advance to its release: a call
\* resolves after at most three callbacks of the engine, whatever calls
\* interleave, a close() during an outstanding advance among them.
C33_AcceptedCallsResolve == [][C33_Step]_vars

\* close() was called while the advance of a batchNext() was outstanding, and
\* both have resolved.
C33_Witness ==
  /\ Len(calls) >= 2
  /\ calls[1].op = "batchNext" /\ calls[2].op = "close"
  /\ calls[2].busy
  /\ calls[1].st = "resolved" /\ calls[2].st = "resolved"
  /\ calls[1].finCb /\ hasCache

\* ------------------------------------------------ an engine without cache

C34_Step ==
  ~hasCache =>
    /\ \A c \in 1..Len(calls) :
         ( /\ calls[c].op = "batchNext" /\ calls[c].st = "pending"
           /\ calls'[c].ans > calls[c].ans /\ calls'[c].resp = "record" ) =>
           /\ calls'[c].st = "hung"
           /\ calls'[c].adv = 1 /\ calls'[c].end = 0
           /\ pendingNext /\ pendingNext'
           /\ UNCHANGED <<finished, itEnded, release>>
    /\ \A c \in 1..Len(calls') :
         calls'[c].st = "hung" =>
           /\ c <= Len(calls) => calls[c].st \in {"pending", "hung"}
           /\ calls'[c].op = "batchNext" /\ calls'[c].resp = "record"
           /\ pendingNext'
           /\ \A e \in (c + 1)..Len(calls') :
                calls'[e].op \in Advancing => calls'[e].st = "thrown"
           /\ finished' =>
                \E e \in 1..Len(calls') :
                  calls'[e].op = "close" /\ calls'[e].end = 1
           /\ itEnded' <= 1

\* C34: on an engine without a cache array a batchNext() whose advance is
\* answered with a record is left unresolved by that callback, which leaves
\* pendingNext TRUE and finished and the release as they were; from then on
\* the call stays unresolved, pendingNext stays TRUE, every later next() and
\* batchNext() is thrown, and the cursor is finished and released only by a
\* close().
C34_NoCacheHangs == [][C34_Step]_vars

\* Without a cache array: a batchNext() hangs, a later next() is thrown, and
\* a close() has finished and released the cursor and resolved.
C34_Witness ==
  /\ ~hasCache /\ Len(calls) >= 3
  /\ calls[1].op = "batchNext" /\ calls[1].st = "hung"
  /\ calls[2].op = "next" /\ calls[2].st = "thrown" /\ ~calls[2].fin
  /\ calls[3].op = "close" /\ calls[3].st = "resolved" /\ calls[3].end = 1
  /\ pendingNext /\ finished

\* --------------------------------------------------------- the legacy cursor

\* C35: given the same awaited next() and close() calls and the same answers
\* of the engine, every call the legacy cursor has resolved has resolved on
\* the current cursor with the same result (the record's key and decoded
\* value, the error, or done) after as many advance and release calls; the
\* legacy cursor waits for the engine only where the current cursor called
\* it; and the two agree on finished and pendingNext when both are at rest.
C35_LegacyEquivalent ==
  /\ Len(legacy.calls) <= Len(calls)
  /\ \A c \in 1..Len(legacy.calls) :
       /\ legacy.calls[c].op = calls[c].op
       /\ legacy.calls[c].adv <= calls[c].adv
       /\ legacy.calls[c].end <= calls[c].end
       /\ legacy.calls[c].st = "resolved" =>
            /\ calls[c].st = "resolved"
            /\ legacy.calls[c].res = calls[c].res
            /\ legacy.calls[c].adv = calls[c].adv
            /\ legacy.calls[c].end = calls[c].end
       /\ legacy.calls[c].st = "pending" =>
            legacy.advancing = c \/ legacy.releasing.call = c
       /\ legacy.calls[c].st # "rejected"
  /\ ( /\ Len(legacy.calls) = Len(calls)
       /\ \A c \in 1..Len(calls) :
            calls[c].st = "resolved" /\ legacy.calls[c].st = "resolved" ) =>
       /\ legacy.finished = finished
       /\ legacy.pendingNext = pendingNext

\* Both cursors returned a record, then reported a damaged value as an error
\* after a release, then resolved done, and close() resolved on both.
C35_Witness ==
  /\ Len(legacy.calls) >= 4
  /\ legacy.calls[1].res.kind = "kv"
  /\ legacy.calls[2].res = ErrResult(EncodingError) /\ legacy.calls[2].end = 1
  /\ legacy.calls[3].res = DoneResult
  /\ legacy.calls[4].op = "close" /\ legacy.calls[4].st = "resolved"
  /\ calls[4].st = "resolved"

====
